---- MODULE Spec2Model ----
(***************************************************************************)
(* Caching core of mcp-osrs (src/unnamed/part_000, the latest of the       *)
(* snapshots of index.ts): the wiki response cache, the request            *)
(* deduplicator, the Grand Exchange price cache, the file-line cache with  *)
(* its ID index, and the two-tier osrsreboxed-db dataset cache.            *)
(*                                                                         *)
(* Time is a discrete clock `now`; the TTLs are scaled to a few ticks of   *)
(* that clock, keeping the comparison operator of each check (< or >) as   *)
(* written in the source.  Node's scheduling is modelled as it is: a       *)
(* handler runs without interleaving up to its next await, a settled       *)
(* promise queues the continuations of its awaiters as microtasks, and the *)
(* microtask queue drains before any new request, timer or I/O completion  *)
(* is taken.                                                               *)
(***************************************************************************)
EXTENDS Integers, Sequences, FiniteSets, TLC

\* ------------------------------------------------------------------ bounds
MaxTime == 2            \* the clock runs 0..MaxTime
MaxCallers == 2         \* tool calls that can be open at the same time
MaxLines == 3           \* pieces between newlines of an indexed file
MaxElements == 3        \* sibling elements of a parsed page
MaxContent == 8         \* characters of a page content given to truncateContent

\* ------------------------------------------------------- program constants
\* (TTLs in clock ticks; the maximum size scaled from 500 entries)
WIKI_CACHE_TTL == 1
WIKI_CACHE_MAX_SIZE == 2
GE_CACHE_TTL == 1
CACHE_TTL == 2
MIN_ENTRIES == 1000
OSRSBOX_CACHE_TTL == 1     \* fewer parsed records than this reject a refresh

Callers == 1..MaxCallers
Pages == {"a", "b"}
Lengths == {"short", "long"}            \* values of max_content_length
\* the cache key of osrs_wiki_parse_page: page and max_content_length
Keys == Pages \X Lengths
Vals == {1, 2}                          \* bodies an upstream can answer with
Null == 0                               \* null / undefined
Outcomes == {"ok", "nohtml", "fail"}

VARIABLES
    now,              \* Date.now()
    wikiCache,        \* Map in insertion order: Seq of [key, data, timestamp]
    pendingRequests,  \* Map key -> promise (named by the call that created it), 0 = absent
    gePriceCache,     \* [present, data, timestamp]
    calls,            \* per open call: the handler's position and locals
    settled,          \* the promise whose continuations are being run
    microtasks,       \* continuations queued by the settled promise
    last,             \* the last cache / dedup operation performed and its result
    disk,             \* the data directory: per path, whether the file exists and its text
    fileCache,        \* Map path -> {lines, timestamp}
    idIndexCache,     \* Map path -> Map id -> line index
    lastF,            \* the last file operation performed and its result
    osrsBoxCache,     \* [present, data, timestamp], absent = null
    boxFile,          \* the dataset snapshot file: [exists, valid, mtime, data, n]
    boxCalls,         \* per open dataset call: position, tool, saveToDisk
    lastB             \* the last dataset operation performed and its result

netVars == <<wikiCache, pendingRequests, gePriceCache, calls, settled, microtasks, last>>
fileVars == <<disk, fileCache, idIndexCache, lastF>>

boxVars == <<osrsBoxCache, boxFile, boxCalls, lastB>>

vars == <<now, netVars, fileVars, boxVars>>

\* ------------------------------------------------------------ wiki cache
\* Position of key k in the Map (0 when absent).
CacheIndex(cache, k) ==
    IF \E i \in 1..Len(cache) : cache[i].key = k
    THEN CHOOSE i \in 1..Len(cache) : cache[i].key = k
    ELSE 0

CacheKeys(cache) == {cache[i].key : i \in 1..Len(cache)}

\* Map.delete(key): the other entries keep their order.
MapDelete(cache, k) ==
    SelectSeq(cache, LAMBDA e : e.key # k)

\* Map.set(key, entry): an existing key keeps its position, a new key goes last.
MapSet(cache, e) ==
    LET i == CacheIndex(cache, e.key)
    IN  IF i = 0 THEN Append(cache, e) ELSE [cache EXCEPT ![i] = e]

\* getFromWikiCache with >= in the expiry test.
getFromWikiCache_ExpireAtTtl(cache, k, t) ==
    LET i == CacheIndex(cache, k)
    IN  IF i = 0
        THEN [ret |-> Null, cache |-> cache]
        ELSE IF t - cache[i].timestamp >= WIKI_CACHE_TTL
             THEN [ret |-> Null, cache |-> MapDelete(cache, k)]
             ELSE [ret |-> cache[i].data, cache |-> cache]

\* getFromWikiCache that moves the entry it hits to the end of the Map (LRU).
getFromWikiCache_Touch(cache, k, t) ==
    LET i == CacheIndex(cache, k)
    IN  IF i = 0
        THEN [ret |-> Null, cache |-> cache]
        ELSE IF t - cache[i].timestamp > WIKI_CACHE_TTL
             THEN [ret |-> Null, cache |-> MapDelete(cache, k)]
             ELSE [ret |-> cache[i].data,
                   cache |-> Append(MapDelete(cache, k), cache[i])]

\* getFromWikiCache(key) at time t: the value returned and the Map afterwards.
getFromWikiCache(cache, k, t) ==
    LET i == CacheIndex(cache, k)
    IN  IF i = 0
        THEN [ret |-> Null, cache |-> cache]
        ELSE IF t - cache[i].timestamp > WIKI_CACHE_TTL
             THEN [ret |-> Null, cache |-> MapDelete(cache, k)]
             ELSE [ret |-> cache[i].data, cache |-> cache]

\* setWikiCache with > in the size test.
setWikiCache_EvictAbove(cache, k, d, t) ==
    LET kept == IF Len(cache) > WIKI_CACHE_MAX_SIZE
                THEN MapDelete(cache, cache[1].key)
                ELSE cache
    IN  MapSet(kept, [key |-> k, data |-> d, timestamp |-> t])

\* setWikiCache that evicts the newest entry.
setWikiCache_EvictNewest(cache, k, d, t) ==
    LET kept == IF Len(cache) >= WIKI_CACHE_MAX_SIZE
                THEN MapDelete(cache, cache[Len(cache)].key)
                ELSE cache
    IN  MapSet(kept, [key |-> k, data |-> d, timestamp |-> t])

\* setWikiCache(key, data) at time t: the Map afterwards.
setWikiCache(cache, k, d, t) ==
    LET kept == IF Len(cache) >= WIKI_CACHE_MAX_SIZE
                THEN MapDelete(cache, cache[1].key)
                ELSE cache
    IN  MapSet(kept, [key |-> k, data |-> d, timestamp |-> t])

\* --------------------------------------------------------- deduplicator
\* fetchWithDedup without the lookup of an outstanding promise.
fetchWithDedup_NoLookup(pend, c, k) ==
    [prom |-> c, invoked |-> TRUE, pend |-> [pend EXCEPT ![k] = c]]

\* fetchWithDedup(key, fetcher) called by call c: the promise the caller
\* gets (a promise is named by the call whose fetcher() created it), whether
\* fetcher() was invoked, and the Map afterwards.
fetchWithDedup(pend, c, k) ==
    IF pend[k] # 0
    THEN [prom |-> pend[k], invoked |-> FALSE, pend |-> pend]
    ELSE [prom |-> c, invoked |-> TRUE, pend |-> [pend EXCEPT ![k] = c]]

\* then() in place of finally(): the key is removed on success only.
dedupFinally_OnSuccess(pend, k, outcome) ==
    IF outcome = "fail" THEN pend ELSE [pend EXCEPT ![k] = 0]

\* the finally() callback of the promise created for key k
dedupFinally(pend, k, outcome) ==
    [pend EXCEPT ![k] = 0]

\* A request is in flight from fetcher() until its promise settles.
InFlight(c) == calls[c].pc = "await" /\ calls[c].prom = c

\* The upstream request an open call has made: the parse request of
\* osrs_wiki_parse_page carries the page only; /latest is one resource.
Resource(c) ==
    IF calls[c].tool = "wiki" THEN <<"parse", calls[c].key[1]>> ELSE <<"ge", "latest">>

ResFail == -1           \* the handler threw
ResNoHtml == -2         \* the handler answered {error: 'Page content not found.'}

NoKey == <<"a", "short">>
IdleCall == [pc |-> "idle", tool |-> "none", key |-> NoKey, prom |-> 0, t0 |-> 0]
\* What the last step did: the operation, the call and key it was for, the value
\* it returned or delivered, and what it found before it acted: a produce for
\* the key in flight, the cache at its maximum size, the key held and its age,
\* a failed produce for the key completed by the step before.
NoLast == [op |-> "none", c |-> 0, key |-> NoKey, ret |-> Null, prom |-> 0,
           inflight |-> FALSE, invoked |-> FALSE, full |-> FALSE, held |-> FALSE,
           age |-> 0, afterFail |-> FALSE,
           action |-> <<>>, params |-> <<>>, cacheKey |-> <<>>, status |-> 0,
           answer |-> "none", tool |-> "none", input |-> <<>>, output |-> <<>>]
NoSettled == [prom |-> 0, outcome |-> "ok", val |-> Null]

InitNetState ==
    /\ now = 0
    /\ wikiCache = <<>>
    /\ pendingRequests = [k \in Keys |-> 0]
    /\ gePriceCache = [present |-> FALSE, data |-> Null, timestamp |-> 0]
    /\ calls = [c \in Callers |-> IdleCall]
    /\ settled = NoSettled
    /\ microtasks = <<>>

InitNet == InitNetState /\ last = NoLast

\* ------------------------------------------------------------ wiki cache key
\* Strings are sequences of characters; a parameter object is the sequence
\* of its [name, value] properties in insertion order, names distinct.
Letters == <<"a", "b", "c", "d", "e", "f", "g", "h", "i", "j", "k", "l", "m",
             "n", "o", "p", "q", "r", "s", "t", "u", "v", "w", "x", "y", "z">>
DigitChars == <<"0", "1", "2", "3", "4", "5", "6", "7", "8", "9">>

\* The UTF-16 code unit of a lower-case letter or of the underscore.
CharCode(ch) == IF ch = "_" THEN 95 ELSE 96 + (CHOOSE i \in 1..26 : Letters[i] = ch)

\* a sorts before b in Array.prototype.sort's default order: by code units,
\* a proper prefix first.
RECURSIVE StringLess(_, _)
StringLess(a, b) ==
    IF a = <<>> THEN b # <<>>
    ELSE IF b = <<>> THEN FALSE
    ELSE IF Head(a) = Head(b) THEN StringLess(Tail(a), Tail(b))
    ELSE CharCode(Head(a)) < CharCode(Head(b))

RECURSIVE InsertKey(_, _)
InsertKey(sorted, k) ==
    IF sorted = <<>> THEN <<k>>
    ELSE IF StringLess(k, Head(sorted)) THEN <<k>> \o sorted
    ELSE <<Head(sorted)>> \o InsertKey(Tail(sorted), k)

\* keys.sort()
RECURSIVE SortKeys(_)
SortKeys(keys) ==
    IF keys = <<>> THEN <<>>
    ELSE InsertKey(SortKeys(SubSeq(keys, 1, Len(keys) - 1)), keys[Len(keys)])

\* Object.keys(params): the names in insertion order (none is an integer).
ObjectKeys(params) == [i \in 1..Len(params) |-> params[i].name]

\* params[key]
ParamValue(params, key) ==
    (CHOOSE e \in {params[i] : i \in 1..Len(params)} : e.name = key).value

\* The decimal digits of a non-negative integer.
RECURSIVE NumberToString(_)
NumberToString(n) ==
    IF n < 10 THEN <<DigitChars[n + 1]>>
    ELSE NumberToString(n \div 10) \o <<DigitChars[(n % 10) + 1]>>

\* `${value}`: a number becomes its digits, a string stays as it is.
ValueToString(v) == IF v.type = "number" THEN NumberToString(v.n) ELSE v.s

\* parts.join(sep)
RECURSIVE Join(_, _)
Join(parts, sep) ==
    IF parts = <<>> THEN <<>>
    ELSE IF Len(parts) = 1 THEN parts[1]
    ELSE parts[1] \o sep \o Join(Tail(parts), sep)

\* The key built from the names in the order Object.keys gives them.
getWikiCacheKey_Unsorted(action, params) ==
    LET keys == ObjectKeys(params)
        parts == [i \in 1..Len(keys) |->
                     keys[i] \o <<"=">> \o ValueToString(ParamValue(params, keys[i]))]
    IN  action \o <<":">> \o Join(parts, <<"&">>)

getWikiCacheKey(action, params) ==
    LET keys == SortKeys(ObjectKeys(params))
        parts == [i \in 1..Len(keys) |->
                     keys[i] \o <<"=">> \o ValueToString(ParamValue(params, keys[i]))]
    IN  action \o <<":">> \o Join(parts, <<"&">>)

\* The calls made: two of the tools' action names, and every object over
\* three of the search tool's parameter names.
WikiSearch == <<"w", "i", "k", "i", "_", "s", "e", "a", "r", "c", "h">>
WikiImages == <<"w", "i", "k", "i", "_", "i", "m", "a", "g", "e", "s">>
KeyActions == {WikiSearch, WikiImages}
NameAction == <<"a", "c", "t", "i", "o", "n">>
NameSrlimit == <<"s", "r", "l", "i", "m", "i", "t">>
NameSroffset == <<"s", "r", "o", "f", "f", "s", "e", "t">>
ParamNames == {NameAction, NameSrlimit, NameSroffset}
NumberValue(n) == [type |-> "number", n |-> n, s |-> <<>>]
StringValue(s) == [type |-> "string", n |-> 0, s |-> s]
ParamValues == {NumberValue(0), NumberValue(10), StringValue(<<"q">>)}
ParamEntries == [name : ParamNames, value : ParamValues]
ParamObjects ==
    {p \in UNION {[1..n -> ParamEntries] : n \in 0..Cardinality(ParamNames)} :
        \A i, j \in 1..Len(p) : p[i].name = p[j].name => i = j}

\* A call of getWikiCacheKey is about to be made with these arguments.
InitKeyCall ==
    /\ InitNetState
    /\ last \in {[NoLast EXCEPT !.op = "args", !.action = a, !.params = p] :
                    a \in KeyActions, p \in ParamObjects}

GetWikiCacheKey ==
    /\ last.op = "args"
    /\ last' = [last EXCEPT !.op = "key",
                            !.cacheKey = getWikiCacheKey(last.action, last.params)]
    /\ UNCHANGED <<now, wikiCache, pendingRequests, gePriceCache, calls, settled,
                   microtasks, fileVars, boxVars>>

NextKey == GetWikiCacheKey

\* The key of osrs_wiki_parse_page: cacheParams is parseParams spread,
\* then max_content_length, then the requested section titles joined by
\* commas ('' when there is none).
WikiParsePage == <<"w", "i", "k", "i", "_", "p", "a", "r", "s", "e", "_", "p", "a", "g", "e">>
parseCacheKey(args) ==
    LET joined == Join(args.sections, <<",">>)
        cacheParams ==
            << [name |-> NameAction, value |-> StringValue(<<"p", "a", "r", "s", "e">>)],
               [name |-> <<"p", "a", "g", "e">>, value |-> StringValue(args.page)],
               [name |-> <<"p", "r", "o", "p">>,
                value |-> StringValue(<<"t", "e", "x", "t", "|", "s", "e", "c", "t", "i",
                                        "o", "n", "s">>)],
               [name |-> <<"f", "o", "r", "m", "a", "t", "v", "e", "r", "s", "i", "o", "n">>,
                value |-> NumberValue(2)],
               [name |-> <<"m", "a", "x", "_", "c", "o", "n", "t", "e", "n", "t", "_",
                           "l", "e", "n", "g", "t", "h">>,
                value |-> NumberValue(args.max_content_length)],
               [name |-> <<"s", "e", "c", "t", "i", "o", "n", "s">>,
                value |-> StringValue(IF joined = <<>> THEN <<>> ELSE joined)] >>
    IN  getWikiCacheKey(WikiParsePage, cacheParams)

\* The validated arguments of the calls compared: two pages, two lengths,
\* and lists of section titles (a title may hold any character).
ParsePageArgs ==
    [page : {<<"a">>, <<"b">>},
     max_content_length : {1000, 25000},
     sections : {<<>>, <<<<"x">>>>, <<<<"x">>, <<"y">>>>, <<<<"x", ",", "y">>>>,
                 <<<<"y">>, <<"x">>>>}]

\* Two calls of osrs_wiki_parse_page are about to compute their keys.
InitParseKey ==
    /\ InitNetState
    /\ \E a, b \in ParsePageArgs :
          last = [NoLast EXCEPT !.op = "args", !.input = <<a, b>>]

ParseCacheKeys ==
    /\ last.op = "args"
    /\ last' = [last EXCEPT !.op = "parse_keys",
                            !.output = <<parseCacheKey(last.input[1]),
                                         parseCacheKey(last.input[2])>>]
    /\ UNCHANGED <<now, wikiCache, pendingRequests, gePriceCache, calls, settled,
                   microtasks, fileVars, boxVars>>

NextParseKey == ParseCacheKeys

\* A new request, a timer or an I/O completion is taken only when the
\* microtask queue is empty.
Quiet == microtasks = <<>>

\* Calls are told apart only by the slot they occupy: a new call takes the
\* lowest free slot.
FreeSlot(c) == calls[c].pc = "idle" /\ \A d \in Callers : d < c => calls[d].pc # "idle"

\* The awaiters of promise p in the order they awaited it: its creator
\* first, then the calls that were handed the pending promise.
Waiters(p) ==
    LET joined == {d \in Callers : d # p /\ calls[d].pc = "await" /\ calls[d].prom = p}
        Ordered[S \in SUBSET Callers] ==
            IF S = {} THEN <<>>
            ELSE LET m == CHOOSE x \in S : \A y \in S : x <= y
                 IN  <<m>> \o Ordered[S \ {m}]
    IN  <<p>> \o Ordered[joined]

Tick ==
    /\ Quiet
    /\ now < MaxTime
    /\ now' = now + 1
    /\ last' = [NoLast EXCEPT !.op = "tick"]
    /\ UNCHANGED <<wikiCache, pendingRequests, gePriceCache, calls, settled, microtasks>>
    /\ UNCHANGED <<fileVars, boxVars>>

\* osrs_wiki_parse_page, from the arrival of the call to its first await
\* (or to its return on a cache hit).
CallWiki(c, k) ==
    /\ Quiet
    /\ FreeSlot(c)
    /\ LET got == getFromWikiCache(wikiCache, k, now)
           i == CacheIndex(wikiCache, k)
           flying == \E d \in Callers : InFlight(d) /\ calls[d].tool = "wiki" /\ calls[d].key = k
           seen == [NoLast EXCEPT !.op = "get", !.c = c, !.key = k, !.ret = got.ret,
                                  !.inflight = flying, !.held = (i # 0),
                                  !.afterFail = (last.op = "resume" /\ last.key = k
                                                 /\ last.ret = ResFail),
                                  !.age = IF i = 0 THEN 0 ELSE now - wikiCache[i].timestamp]
       IN  /\ wikiCache' = got.cache
           /\ IF got.ret # Null
              THEN /\ last' = seen
                   /\ UNCHANGED <<pendingRequests, calls>>
              ELSE LET f == fetchWithDedup(pendingRequests, c, k)
                   IN  /\ pendingRequests' = f.pend
                       /\ calls' = [calls EXCEPT ![c] = [pc |-> "await", tool |-> "wiki",
                                                            key |-> k, prom |-> f.prom, t0 |-> 0]]
                       /\ last' = [seen EXCEPT !.op = "dedup", !.invoked = f.invoked,
                                                !.prom = f.prom]
    /\ UNCHANGED <<now, gePriceCache, settled, microtasks, fileVars, boxVars>>

\* The wiki answers the request made by call c: the promise settles, its
\* finally() callback runs, and the continuations of its awaiters are queued.
Settle(c, outcome, v) ==
    /\ Quiet
    /\ InFlight(c)
    /\ calls[c].tool = "wiki"
    /\ (outcome = "ok") = (v # Null)
    /\ microtasks' = Waiters(c)
    /\ settled' = [prom |-> c, outcome |-> outcome, val |-> v]
    /\ calls' = [d \in Callers |->
                    IF calls[d].pc = "await" /\ calls[d].prom = c
                    THEN [calls[d] EXCEPT !.pc = "ready"] ELSE calls[d]]
    /\ pendingRequests' = dedupFinally(pendingRequests, calls[c].key, outcome)
    /\ last' = [NoLast EXCEPT !.op = "settle", !.c = c, !.key = calls[c].key, !.prom = c]
    /\ UNCHANGED <<now, wikiCache, gePriceCache, fileVars, boxVars>>

\* The value a call awaiting promise p resumes with.
Delivered(c) ==
    IF calls[c].prom # settled.prom THEN Null
    ELSE IF settled.outcome = "ok" THEN settled.val
    ELSE IF settled.outcome = "nohtml" THEN ResNoHtml ELSE ResFail

\* The first queued continuation runs: the rest of the handler after its await.
Resume ==
    /\ microtasks # <<>>
    /\ LET c == Head(microtasks)
           res == Delivered(c)
           k == calls[c].key
       IN  /\ calls[c].tool = "wiki"
           /\ microtasks' = Tail(microtasks)
           /\ settled' = IF Len(microtasks) = 1 THEN NoSettled ELSE settled
           /\ calls' = [calls EXCEPT ![c] = IdleCall]
           /\ IF settled.outcome = "ok"
              THEN /\ wikiCache' = setWikiCache(wikiCache, k, res, now)
                   /\ last' = [NoLast EXCEPT !.op = "put", !.c = c, !.key = k, !.ret = res,
                                   !.prom = calls[c].prom,
                                   !.full = (Len(wikiCache) >= WIKI_CACHE_MAX_SIZE),
                                   !.held = (CacheIndex(wikiCache, k) # 0)]
              ELSE /\ wikiCache' = wikiCache
                   /\ last' = [NoLast EXCEPT !.op = "resume", !.c = c, !.key = k, !.ret = res,
                                                   !.prom = calls[c].prom]
    /\ UNCHANGED <<now, pendingRequests, gePriceCache, fileVars, boxVars>>

NextNet ==
    \/ Tick
    \/ \E c \in Callers, k \in Keys : CallWiki(c, k)
    \/ \E c \in Callers, o \in Outcomes, v \in Vals \cup {Null} : Settle(c, o, v)
    \/ Resume

\* ------------------------------------------------------ GE price cache
\* The handlers that call getGEPrices(): "ge" is osrs_ge_price /
\* osrs_ge_prices, "drops" is osrs_get_monster_drops /
\* osrs_search_monster_drops with include_ge_prices, its base result formed.
PriceTools == {"ge", "drops"}

\* The drops handlers letting a failed price fetch propagate.
priceToolAnswer_NoCatch(tool, delivered) ==
    IF delivered = ResFail THEN "threw"
    ELSE IF tool = "ge" THEN "prices" ELSE "enriched"

\* What the handler answers once getGEPrices() has returned or thrown: the
\* price handlers let the error propagate, the drops handlers catch it and
\* answer the base result.
priceToolAnswer(tool, delivered) ==
    IF tool = "ge" THEN (IF delivered = ResFail THEN "threw" ELSE "prices")
    ELSE (IF delivered = ResFail THEN "base" ELSE "enriched")

\* getGEPrices() as called by the handler tool, up to its await of
\* geApiClient.get('/latest') (or to its return on a cache hit).
CallPrices(c, tool) ==
    /\ Quiet
    /\ FreeSlot(c)
    /\ IF gePriceCache.present /\ (now - gePriceCache.timestamp) < GE_CACHE_TTL
       THEN /\ last' = [NoLast EXCEPT !.op = "ge_hit", !.c = c, !.ret = gePriceCache.data,
                             !.tool = tool,
                             !.answer = priceToolAnswer(tool, gePriceCache.data)]
            /\ UNCHANGED calls
       ELSE /\ calls' = [calls EXCEPT ![c] = [pc |-> "await", tool |-> tool, key |-> NoKey,
                                                 prom |-> c, t0 |-> now]]
            /\ last' = [NoLast EXCEPT !.op = "ge_fetch", !.c = c, !.invoked = TRUE, !.prom = c,
                             !.tool = tool,
                             !.inflight = \E d \in Callers :
                                             InFlight(d) /\ calls[d].tool \in PriceTools]
    /\ UNCHANGED <<now, wikiCache, pendingRequests, gePriceCache, settled, microtasks, fileVars, boxVars>>

\* The price API answers the request made by call c.
SettleGE(c, outcome, v) ==
    /\ Quiet
    /\ InFlight(c)
    /\ calls[c].tool \in PriceTools
    /\ (outcome = "ok") = (v # Null)
    /\ microtasks' = <<c>>
    /\ settled' = [prom |-> c, outcome |-> outcome, val |-> v]
    /\ calls' = [calls EXCEPT ![c].pc = "ready"]
    /\ last' = [NoLast EXCEPT !.op = "ge_settle", !.c = c, !.prom = c]
    /\ UNCHANGED <<now, wikiCache, pendingRequests, gePriceCache, fileVars, boxVars>>

\* The rest of getGEPrices() after its await.
ResumeGE ==
    /\ microtasks # <<>>
    /\ LET c == Head(microtasks)
       IN  /\ calls[c].tool \in PriceTools
           /\ microtasks' = Tail(microtasks)
           /\ settled' = NoSettled
           /\ calls' = [calls EXCEPT ![c] = IdleCall]
           /\ gePriceCache' = IF settled.outcome = "ok"
                              THEN [present |-> TRUE, data |-> settled.val,
                                    timestamp |-> calls[c].t0]
                              ELSE gePriceCache
           /\ last' = [NoLast EXCEPT !.op = "ge_resume", !.c = c, !.ret = Delivered(c),
                                     !.prom = c, !.tool = calls[c].tool,
                                     !.answer = priceToolAnswer(calls[c].tool, Delivered(c))]
    /\ UNCHANGED <<now, wikiCache, pendingRequests, fileVars, boxVars>>

\* osrs_ge_price / osrs_ge_prices
CallGE(c) == CallPrices(c, "ge")

\* osrs_get_monster_drops / osrs_search_monster_drops with include_ge_prices
CallDropsPrices(c) == CallPrices(c, "drops")

NextPrices ==
    \/ Tick
    \/ \E c \in Callers : CallGE(c)
    \/ \E c \in Callers : CallDropsPrices(c)
    \/ \E c \in Callers, o \in {"ok", "fail"}, v \in Vals \cup {Null} : SettleGE(c, o, v)
    \/ ResumeGE

NextGE ==
    \/ Tick
    \/ \E c \in Callers : CallGE(c)
    \/ \E c \in Callers, o \in {"ok", "fail"}, v \in Vals \cup {Null} : SettleGE(c, o, v)
    \/ ResumeGE

\* ------------------------------------------------------- file-line cache
\* A line is a sequence of characters; a file's text is given as its pieces
\* between newlines, each possibly ending in a carriage return.
Digits == {"0", "1", "2", "3", "4", "5", "6", "7", "8", "9"}
DigitVal(ch) ==
    CASE ch = "0" -> 0 [] ch = "1" -> 1 [] ch = "2" -> 2 [] ch = "3" -> 3 [] ch = "4" -> 4
      [] ch = "5" -> 5 [] ch = "6" -> 6 [] ch = "7" -> 7 [] ch = "8" -> 8 [] ch = "9" -> 9

TextA == << <<"1", "\t", "a">>, <<"2", "\t", "b">> >>
TextB == << <<"2", "\t", "b", "\r">>, <<"#", "x", "\r">>, <<"1", "\t", "c", "\r">>, <<>> >>
Texts == {TextA, TextB}
Paths == {"objtypes.txt", "soundids.txt"}
ObjTypesPath == "objtypes.txt"
SoundIdsPath == "soundids.txt"
Ids == 1..3

\* line.replace(/\r$/, '')
StripCR(line) ==
    IF Len(line) > 0 /\ line[Len(line)] = "\r" THEN SubSeq(line, 1, Len(line) - 1) ELSE line

\* content.split('\n').map(line => line.replace(/\r$/, ''))
SplitLines(text) == [i \in 1..Len(text) |-> StripCR(text[i])]

NoSnapshot == [present |-> FALSE, lines |-> <<>>, timestamp |-> 0]
EmptyIndex == [x \in {} |-> 0]
NoIndex == [present |-> FALSE, index |-> EmptyIndex]

\* getCachedFileLines without idIndexCache.delete(filePath) after a read.
getCachedFileLines_KeepIndex(fc, ix, dsk, p, t) ==
    IF fc[p].present /\ (t - fc[p].timestamp) < CACHE_TTL
    THEN [threw |-> FALSE, lines |-> fc[p].lines, read |-> FALSE, fileCache |-> fc,
          idIndexCache |-> ix]
    ELSE IF ~dsk[p].exists
    THEN [threw |-> TRUE, lines |-> <<>>, read |-> FALSE, fileCache |-> fc,
          idIndexCache |-> ix]
    ELSE LET lines == SplitLines(dsk[p].text)
         IN  [threw |-> FALSE, lines |-> lines, read |-> TRUE,
              fileCache |-> [fc EXCEPT ![p] = [present |-> TRUE, lines |-> lines,
                                               timestamp |-> t]],
              idIndexCache |-> ix]

\* getCachedFileLines dropping every snapshot and index when the file is gone.
getCachedFileLines_ClearOnMissing(fc, ix, dsk, p, t) ==
    IF fc[p].present /\ (t - fc[p].timestamp) < CACHE_TTL
    THEN [threw |-> FALSE, lines |-> fc[p].lines, read |-> FALSE, fileCache |-> fc,
          idIndexCache |-> ix]
    ELSE IF ~dsk[p].exists
    THEN [threw |-> TRUE, lines |-> <<>>, read |-> FALSE,
          fileCache |-> [p2 \in DOMAIN fc |-> NoSnapshot],
          idIndexCache |-> [p2 \in DOMAIN ix |-> NoIndex]]
    ELSE LET lines == SplitLines(dsk[p].text)
         IN  [threw |-> FALSE, lines |-> lines, read |-> TRUE,
              fileCache |-> [fc EXCEPT ![p] = [present |-> TRUE, lines |-> lines,
                                               timestamp |-> t]],
              idIndexCache |-> [ix EXCEPT ![p] = NoIndex]]

\* getCachedFileLines with <= in the freshness test.
getCachedFileLines_FreshAtTtl(fc, ix, dsk, p, t) ==
    IF fc[p].present /\ (t - fc[p].timestamp) <= CACHE_TTL
    THEN [threw |-> FALSE, lines |-> fc[p].lines, read |-> FALSE, fileCache |-> fc,
          idIndexCache |-> ix]
    ELSE IF ~dsk[p].exists
    THEN [threw |-> TRUE, lines |-> <<>>, read |-> FALSE, fileCache |-> fc,
          idIndexCache |-> ix]
    ELSE LET lines == SplitLines(dsk[p].text)
         IN  [threw |-> FALSE, lines |-> lines, read |-> TRUE,
              fileCache |-> [fc EXCEPT ![p] = [present |-> TRUE, lines |-> lines,
                                               timestamp |-> t]],
              idIndexCache |-> [ix EXCEPT ![p] = NoIndex]]

\* getCachedFileLines(filePath) at time t with the caches fc, ix and the
\* directory dsk: whether it threw, the lines returned, whether the file was
\* read, and the caches afterwards.
getCachedFileLines(fc, ix, dsk, p, t) ==
    IF fc[p].present /\ (t - fc[p].timestamp) < CACHE_TTL
    THEN [threw |-> FALSE, lines |-> fc[p].lines, read |-> FALSE, fileCache |-> fc,
          idIndexCache |-> ix]
    ELSE IF ~dsk[p].exists
    THEN [threw |-> TRUE, lines |-> <<>>, read |-> FALSE, fileCache |-> fc,
          idIndexCache |-> ix]
    ELSE LET lines == SplitLines(dsk[p].text)
         IN  [threw |-> FALSE, lines |-> lines, read |-> TRUE,
              fileCache |-> [fc EXCEPT ![p] = [present |-> TRUE, lines |-> lines,
                                               timestamp |-> t]],
              idIndexCache |-> [ix EXCEPT ![p] = NoIndex]]

\* line.match(/^(\d+)/): the maximal leading run of digits.
RECURSIVE LeadingDigits(_)
LeadingDigits(line) ==
    IF line = <<>> \/ Head(line) \notin Digits THEN <<>>
    ELSE <<Head(line)>> \o LeadingDigits(Tail(line))

\* parseInt(text, 10) of a run of digits.
RECURSIVE ParseInt(_)
ParseInt(ds) ==
    IF ds = <<>> THEN 0 ELSE 10 * ParseInt(SubSeq(ds, 1, Len(ds) - 1)) + DigitVal(ds[Len(ds)])

\* index.set(id, i + 1)
IndexSet_OneBased(index, id, i) ==
    [x \in DOMAIN index \cup {id} |-> IF x = id THEN i + 1 ELSE index[x]]

\* if (!index.has(id)) index.set(id, i): the first line of an ID is kept.
IndexSet_KeepFirst(index, id, i) ==
    [x \in DOMAIN index \cup {id} |-> IF x \in DOMAIN index THEN index[x] ELSE i]

\* index.set(id, i)
IndexSet(index, id, i) ==
    [x \in DOMAIN index \cup {id} |-> IF x = id THEN i ELSE index[x]]

\* The loop of buildIdIndex over lines[i..]: line offsets are 0-based.
RECURSIVE IndexLoop(_, _, _)
IndexLoop(lines, i, index) ==
    IF i > Len(lines) THEN index
    ELSE LET m == LeadingDigits(lines[i])
         IN  IndexLoop(lines, i + 1,
                       IF m # <<>> THEN IndexSet(index, ParseInt(m), i - 1) ELSE index)

\* buildIdIndex(filePath), reading the clock at t1 for its own freshness test
\* and at t2 inside getCachedFileLines.
buildIdIndex(fc, ix, dsk, p, t1, t2) ==
    IF ix[p].present /\ fc[p].present /\ (t1 - fc[p].timestamp) < CACHE_TTL
    THEN [threw |-> FALSE, index |-> ix[p].index, read |-> FALSE, reused |-> TRUE,
          fileCache |-> fc, idIndexCache |-> ix]
    ELSE LET g == getCachedFileLines(fc, ix, dsk, p, t2)
         IN  IF g.threw
             THEN [threw |-> TRUE, index |-> EmptyIndex, read |-> FALSE, reused |-> FALSE,
                   fileCache |-> g.fileCache, idIndexCache |-> g.idIndexCache]
             ELSE LET index == IndexLoop(g.lines, 1, EmptyIndex)
                  IN  [threw |-> FALSE, index |-> index, read |-> g.read, reused |-> FALSE,
                       fileCache |-> g.fileCache,
                       idIndexCache |-> [g.idIndexCache EXCEPT
                                            ![p] = [present |-> TRUE, index |-> index]]]

\* getEntryById(filePath, id): the clock is read at t1 and t2 by buildIdIndex
\* and at t3 by the getCachedFileLines that follows.  found = FALSE is null.
getEntryById(fc, ix, dsk, p, id, t1, t2, t3) ==
    LET b == buildIdIndex(fc, ix, dsk, p, t1, t2)
        none == [threw |-> FALSE, found |-> FALSE, lineNumber |-> 0, raw |-> <<>>,
                 read |-> b.read, fileCache |-> b.fileCache, idIndexCache |-> b.idIndexCache]
    IN  IF b.threw THEN [none EXCEPT !.threw = TRUE]
        ELSE IF id \notin DOMAIN b.index THEN none
        ELSE LET g == getCachedFileLines(b.fileCache, b.idIndexCache, dsk, p, t3)
                 lineIndex == b.index[id]
                 after == [none EXCEPT !.read = b.read \/ g.read, !.fileCache = g.fileCache,
                                       !.idIndexCache = g.idIndexCache]
             IN  IF g.threw THEN [after EXCEPT !.threw = TRUE]
                 ELSE IF lineIndex + 1 > Len(g.lines) \/ g.lines[lineIndex + 1] = <<>>
                 THEN after
                 ELSE [after EXCEPT !.found = TRUE, !.lineNumber = lineIndex + 1,
                                    !.raw = g.lines[lineIndex + 1]]

\* What the last file operation did.
NoLastF == [op |-> "none", path |-> "objtypes.txt", id |-> 0, threw |-> FALSE,
            read |-> FALSE, reused |-> FALSE, stale |-> FALSE, hadIndex |-> FALSE,
            lines |-> <<>>, found |-> FALSE, raw |-> <<>>, dryRun |-> FALSE, n |-> 0,
            tool |-> "none", filename |-> <<>>, accessed |-> {}, cacheRead |-> FALSE,
            answer |-> "none", name |-> <<>>]

InitFile ==
    /\ disk = [p \in Paths |-> [exists |-> TRUE, text |-> TextA]]
    /\ fileCache = [p \in Paths |-> NoSnapshot]
    /\ idIndexCache = [p \in Paths |-> NoIndex]
    /\ lastF = NoLastF

\* The clock readings a synchronous call can make after one at t.
Later(t) == {u \in {t, t + 1} : u <= MaxTime}

\* The snapshot of p is held and has outlived the TTL at time t.
Stale(fc, p, t) == fc[p].present /\ (t - fc[p].timestamp) >= CACHE_TTL

TickFile ==
    /\ now < MaxTime
    /\ now' = now + 1
    /\ lastF' = [NoLastF EXCEPT !.op = "tick"]
    /\ UNCHANGED <<netVars, boxVars, disk, fileCache, idIndexCache>>

\* A data file is replaced or removed from outside the program.
FileChange(p, text) ==
    /\ disk[p] # [exists |-> TRUE, text |-> text]
    /\ disk' = [disk EXCEPT ![p] = [exists |-> TRUE, text |-> text]]
    /\ lastF' = [NoLastF EXCEPT !.op = "change", !.path = p]
    /\ UNCHANGED <<now, netVars, boxVars, fileCache, idIndexCache>>

FileDelete(p) ==
    /\ disk[p].exists
    /\ disk' = [disk EXCEPT ![p] = [exists |-> FALSE, text |-> TextA]]
    /\ lastF' = [NoLastF EXCEPT !.op = "delete", !.path = p]
    /\ UNCHANGED <<now, netVars, boxVars, fileCache, idIndexCache>>

\* A tool that reads the lines of a file (searchFile, findByExactName,
\* searchFileRegex, getFileDetails): one call of getCachedFileLines.
GetLines(p) ==
    /\ LET g == getCachedFileLines(fileCache, idIndexCache, disk, p, now)
       IN  /\ fileCache' = g.fileCache
           /\ idIndexCache' = g.idIndexCache
           /\ lastF' = [NoLastF EXCEPT !.op = "getLines", !.path = p, !.threw = g.threw,
                                      !.read = g.read, !.lines = g.lines,
                                      !.stale = Stale(fileCache, p, now),
                                      !.hadIndex = idIndexCache[p].present]
    /\ UNCHANGED <<now, netVars, boxVars, disk>>

\* buildIdIndex(filePath) as called by get_id_range and by the pre-warm.
BuildIdIndex(p, t2) ==
    /\ LET b == buildIdIndex(fileCache, idIndexCache, disk, p, now, t2)
       IN  /\ now' = IF b.reused THEN now ELSE t2
           /\ fileCache' = b.fileCache
           /\ idIndexCache' = b.idIndexCache
           /\ lastF' = [NoLastF EXCEPT !.op = "buildIdIndex", !.path = p, !.threw = b.threw,
                                      !.read = b.read, !.reused = b.reused,
                                      !.stale = Stale(fileCache, p, now),
                                      !.hadIndex = idIndexCache[p].present]
    /\ UNCHANGED <<netVars, boxVars, disk>>

\* getEntryById(filePath, id) as called by the get_*_by_id tools.
GetEntryById(p, id, t2, t3) ==
    /\ t2 <= t3
    /\ LET e == getEntryById(fileCache, idIndexCache, disk, p, id, now, t2, t3)
       IN  /\ now' = t3
           /\ fileCache' = e.fileCache
           /\ idIndexCache' = e.idIndexCache
           /\ lastF' = [NoLastF EXCEPT !.op = "getEntryById", !.path = p, !.id = id,
                                      !.threw = e.threw, !.read = e.read,
                                      !.found = e.found, !.raw = e.raw,
                                      !.stale = Stale(fileCache, p, now),
                                      !.hadIndex = idIndexCache[p].present]
    /\ UNCHANGED <<netVars, boxVars, disk>>

\* updateSoundIdsFromWiki writing the file without invalidating the caches.
updateSoundIdsFromWiki_NoInvalidate(dsk, fc, ix, dryRun, n, text) ==
    IF n = 0 \/ n < MIN_ENTRIES
    THEN [threw |-> TRUE, written |-> FALSE, disk |-> dsk, fileCache |-> fc, idIndexCache |-> ix]
    ELSE IF dryRun
    THEN [threw |-> FALSE, written |-> FALSE, disk |-> dsk, fileCache |-> fc, idIndexCache |-> ix]
    ELSE [threw |-> FALSE, written |-> TRUE,
          disk |-> [dsk EXCEPT ![SoundIdsPath] = [exists |-> TRUE, text |-> text]],
          fileCache |-> fc, idIndexCache |-> ix]

\* updateSoundIdsFromWiki(dryRun) after its await of the wiki page: n entries
\* were parsed from the page, and text is the file they are written as.
\* Returns whether it threw, whether it wrote, and the state afterwards.
updateSoundIdsFromWiki(dsk, fc, ix, dryRun, n, text) ==
    IF n = 0 \/ n < MIN_ENTRIES
    THEN [threw |-> TRUE, written |-> FALSE, disk |-> dsk, fileCache |-> fc, idIndexCache |-> ix]
    ELSE IF dryRun
    THEN [threw |-> FALSE, written |-> FALSE, disk |-> dsk, fileCache |-> fc, idIndexCache |-> ix]
    ELSE [threw |-> FALSE, written |-> TRUE,
          disk |-> [dsk EXCEPT ![SoundIdsPath] = [exists |-> TRUE, text |-> text]],
          fileCache |-> [fc EXCEPT ![SoundIdsPath] = NoSnapshot],
          idIndexCache |-> [ix EXCEPT ![SoundIdsPath] = NoIndex]]

UpdateSoundIds(dryRun, n, text) ==
    /\ (dryRun \/ n < MIN_ENTRIES) => text = TextA
    /\ LET u == updateSoundIdsFromWiki(disk, fileCache, idIndexCache, dryRun, n, text)
       IN  /\ disk' = u.disk
           /\ fileCache' = u.fileCache
           /\ idIndexCache' = u.idIndexCache
           /\ lastF' = [NoLastF EXCEPT !.op = "update", !.path = SoundIdsPath,
                                      !.threw = u.threw, !.read = u.written,
                                      !.dryRun = dryRun, !.n = n,
                                      !.stale = u.written /\ Stale(fileCache, SoundIdsPath, now),
                                      !.hadIndex = u.written /\ idIndexCache[SoundIdsPath].present]
    /\ UNCHANGED <<now, netVars, boxVars>>

NextFile ==
    \/ TickFile
    \/ \E p \in Paths, text \in Texts : FileChange(p, text)
    \/ \E p \in Paths : FileDelete(p)
    \/ \E p \in Paths : GetLines(p)
    \/ \E p \in Paths, t2 \in Later(now) : BuildIdIndex(p, t2)
    \/ \E p \in Paths, id \in Ids, t2, t3 \in Later(now) : GetEntryById(p, id, t2, t3)
    \/ \E dryRun \in BOOLEAN, n \in {0, MIN_ENTRIES - 1, MIN_ENTRIES}, text \in Texts :
          UpdateSoundIds(dryRun, n, text)

\* ------------------------------------------------- osrsreboxed-db dataset
\* monsters.length of a downloaded dataset.
Counts == {0, MIN_ENTRIES - 1, MIN_ENTRIES}

\* A character string as a sequence of characters, and String.toLowerCase.
ToLowerChar(ch) ==
    IF ch = "G" THEN "g" ELSE IF ch = "I" THEN "i" ELSE IF ch = "A" THEN "a" ELSE ch
ToLowerCase(str) == [i \in 1..Len(str) |-> ToLowerChar(str[i])]

\* String.includes: sub occurs in str as a contiguous run.
Includes(str, sub) ==
    \E i \in 0..(Len(str) - Len(sub)) :
        \A j \in 1..Len(sub) : str[i + j] = sub[j]

\* The display name of an item, and a drop of it in a monster's list.
ItemName(id) ==
    IF id = 1 THEN <<"A", "g">> ELSE IF id = 2 THEN <<"a", "i">> ELSE <<"g", "a">>
Drop(id, rarity) == [id |-> id, name |-> ItemName(id), rarity |-> rarity]

\* Object.values(rawData) of the two dataset versions a download can carry:
\* monsters in key order, each with its drops in file order (rarity scaled
\* to an integer, a larger number being better odds).
ObjectValues(rawData) ==
    IF rawData = 1
    THEN << [id |-> 1, name |-> <<"G", "o">>,
             drops |-> << Drop(1, 1), Drop(2, 3) >>],
            [id |-> 2, name |-> <<"g", "o">>,
             drops |-> << Drop(1, 3), Drop(3, 1) >>],
            [id |-> 3, name |-> <<"I", "m">>,
             drops |-> << Drop(1, 2), Drop(1, 3) >>] >>
    ELSE IF rawData = 2
    THEN << [id |-> 1, name |-> <<"g">>, drops |-> << >>],
            [id |-> 3, name |-> <<"i", "m">>,
             drops |-> << Drop(2, 2), Drop(1, 3) >>] >>
    ELSE << >>

MonsterIds == 1..3
ItemIds == 1..3
Rarities == 1..3

\* Map.get(key) || [] on a Map of [key, value] entries.
MapValueOrEmpty(map, k) ==
    LET i == CacheIndex(map, k) IN IF i = 0 THEN << >> ELSE map[i].value

\* The inner loop of buildOsrsBoxIndexes: the drops of one monster, from
\* the j-th on, appended to the inverted item index.
RECURSIVE DropLoop(_, _, _)
DropLoop(monster, j, itemDropIndex) ==
    IF j > Len(monster.drops) THEN itemDropIndex
    ELSE LET drop == monster.drops[j]
             sources == MapValueOrEmpty(itemDropIndex, drop.id)
             entry == [monsterId |-> monster.id, monsterName |-> monster.name,
                       rarity |-> drop.rarity]
         IN DropLoop(monster, j + 1,
                     MapSet(itemDropIndex, [key |-> drop.id, value |-> Append(sources, entry)]))

\* The outer loop of buildOsrsBoxIndexes, from the i-th monster on.
RECURSIVE MonsterLoop(_, _, _)
MonsterLoop(monsters, i, acc) ==
    IF i > Len(monsters) THEN acc
    ELSE LET monster == monsters[i]
             nameLower == ToLowerCase(monster.name)
             existing == MapValueOrEmpty(acc.monsterNameIndex, nameLower)
         IN MonsterLoop(monsters, i + 1,
              [monsters |-> MapSet(acc.monsters, [key |-> monster.id, value |-> monster]),
               monsterNameIndex |-> MapSet(acc.monsterNameIndex,
                                           [key |-> nameLower, value |-> Append(existing, monster.id)]),
               itemDropIndex |-> DropLoop(monster, 1, acc.itemDropIndex)])

EmptyIndexes == [monsters |-> << >>, monsterNameIndex |-> << >>, itemDropIndex |-> << >>]

\* The three index structures of a cache object.
IndexesOf(cache) ==
    [monsters |-> cache.monsters, monsterNameIndex |-> cache.monsterNameIndex,
     itemDropIndex |-> cache.itemDropIndex]

NoBoxCache == [present |-> FALSE, data |-> Null, timestamp |-> 0,
               monsters |-> << >>, monsterNameIndex |-> << >>, itemDropIndex |-> << >>,
               n |-> 0, fetched |-> 0]
NoBoxFile == [exists |-> FALSE, valid |-> FALSE, mtime |-> 0, data |-> Null, n |-> 0]
\* The index build over each dataset version.
BuiltIndexes == [rawData \in Vals |-> MonsterLoop(ObjectValues(rawData), 1, EmptyIndexes)]

\* monsters names the dataset version whose records are indexed.
buildOsrsBoxIndexes(monsters, t) ==
    LET built == BuiltIndexes[monsters]
    IN  [present |-> TRUE, data |-> monsters, timestamp |-> t,
         monsters |-> built.monsters,
         monsterNameIndex |-> built.monsterNameIndex,
         itemDropIndex |-> built.itemDropIndex]

\* osrsBoxCache = buildOsrsBoxIndexes(monsters): the cache object adopted,
\* with monsters.length (n) and, for the record, the time at which the
\* records were downloaded.
adoptDataset(monsters, n, fetched, t) ==
    LET built == buildOsrsBoxIndexes(monsters, t)
    IN  [present |-> TRUE, data |-> built.data, timestamp |-> built.timestamp,
         monsters |-> built.monsters, monsterNameIndex |-> built.monsterNameIndex,
         itemDropIndex |-> built.itemDropIndex, n |-> n, fetched |-> fetched]

\* Returns whether the snapshot was adopted, and osrsBoxCache afterwards.
loadOsrsBoxFromDisk(cache, file, t) ==
    IF ~file.exists THEN [ok |-> FALSE, cache |-> cache]
    ELSE IF t - file.mtime > OSRSBOX_CACHE_TTL THEN [ok |-> FALSE, cache |-> cache]
    ELSE IF ~file.valid THEN [ok |-> FALSE, cache |-> cache]   \* JSON.parse throws
    ELSE [ok |-> TRUE, cache |-> adoptDataset(file.data, file.n, file.mtime, t)]

\* getOsrsBoxCache up to its await: where the answer comes from, the answer
\* when no fetch is needed, and osrsBoxCache afterwards.  t1 and t2 are the
\* clock readings of the memory test and of the disk test.
getOsrsBoxCache(cache, file, forceRefresh, t1, t2) ==
    IF ~forceRefresh /\ cache.present /\ (t1 - cache.timestamp) < OSRSBOX_CACHE_TTL
    THEN [source |-> "memory", ret |-> cache.data, cache |-> cache]
    ELSE LET ld == IF forceRefresh THEN [ok |-> FALSE, cache |-> cache]
                   ELSE loadOsrsBoxFromDisk(cache, file, t2)
         IN IF ld.ok
            THEN [source |-> "disk", ret |-> ld.cache.data, cache |-> ld.cache]
            ELSE [source |-> "remote", ret |-> Null, cache |-> cache]

\* How a download ends: a response, a failed request or an unusable body,
\* and a response whose writeFileSync fails leaving the file alone or broken.
BoxOutcomes == {"ok", "fail", "nowrite", "partwrite"}

\* The download is accepted unless it is empty.
fetchOsrsBoxData_NoMinimum(cache, file, saveToDisk, outcome, n, monsters, t) ==
    IF outcome = "fail" \/ n = 0
    THEN [threw |-> TRUE, cache |-> cache, file |-> file]
    ELSE IF ~saveToDisk
    THEN [threw |-> FALSE, cache |-> cache, file |-> file]
    ELSE IF outcome = "nowrite"
    THEN [threw |-> TRUE, cache |-> cache, file |-> file]
    ELSE IF outcome = "partwrite"
    THEN [threw |-> TRUE, cache |-> cache,
          file |-> [exists |-> TRUE, valid |-> FALSE, mtime |-> t, data |-> Null, n |-> 0]]
    ELSE [threw |-> FALSE,
          cache |-> adoptDataset(monsters, n, t, t),
          file |-> [exists |-> TRUE, valid |-> TRUE, mtime |-> t, data |-> monsters,
                    n |-> n]]

\* fetchOsrsBoxData saving whatever saveToDisk says.
fetchOsrsBoxData_AlwaysSave(cache, file, saveToDisk, outcome, n, monsters, t) ==
    IF outcome = "fail" \/ n = 0 \/ n < MIN_ENTRIES
    THEN [threw |-> TRUE, cache |-> cache, file |-> file]
    ELSE IF outcome = "nowrite"
    THEN [threw |-> TRUE, cache |-> cache, file |-> file]
    ELSE IF outcome = "partwrite"
    THEN [threw |-> TRUE, cache |-> cache,
          file |-> [exists |-> TRUE, valid |-> FALSE, mtime |-> t, data |-> Null, n |-> 0]]
    ELSE [threw |-> FALSE,
          cache |-> adoptDataset(monsters, n, t, t),
          file |-> [exists |-> TRUE, valid |-> TRUE, mtime |-> t, data |-> monsters,
                    n |-> n]]

\* fetchOsrsBoxData writing the snapshot before it checks the record count.
fetchOsrsBoxData_SaveFirst(cache, file, saveToDisk, outcome, n, monsters, t) ==
    IF outcome = "fail" \/ n = 0
    THEN [threw |-> TRUE, cache |-> cache, file |-> file]
    ELSE IF n < MIN_ENTRIES
    THEN [threw |-> TRUE, cache |-> cache,
          file |-> IF saveToDisk
                   THEN [exists |-> TRUE, valid |-> TRUE, mtime |-> t, data |-> monsters,
                         n |-> n]
                   ELSE file]
    ELSE IF ~saveToDisk
    THEN [threw |-> FALSE, cache |-> cache, file |-> file]
    ELSE IF outcome = "nowrite"
    THEN [threw |-> TRUE, cache |-> cache, file |-> file]
    ELSE IF outcome = "partwrite"
    THEN [threw |-> TRUE, cache |-> cache,
          file |-> [exists |-> TRUE, valid |-> FALSE, mtime |-> t, data |-> Null, n |-> 0]]
    ELSE [threw |-> FALSE,
          cache |-> adoptDataset(monsters, n, t, t),
          file |-> [exists |-> TRUE, valid |-> TRUE, mtime |-> t, data |-> monsters,
                    n |-> n]]

\* fetchOsrsBoxData after its await: the response carries n monsters.
fetchOsrsBoxData(cache, file, saveToDisk, outcome, n, monsters, t) ==
    IF outcome = "fail" \/ n = 0 \/ n < MIN_ENTRIES
    THEN [threw |-> TRUE, cache |-> cache, file |-> file]
    ELSE IF ~saveToDisk
    THEN [threw |-> FALSE, cache |-> cache, file |-> file]
    ELSE IF outcome = "nowrite"
    THEN [threw |-> TRUE, cache |-> cache, file |-> file]
    ELSE IF outcome = "partwrite"
    THEN [threw |-> TRUE, cache |-> cache,
          file |-> [exists |-> TRUE, valid |-> FALSE, mtime |-> t, data |-> Null, n |-> 0]]
    ELSE [threw |-> FALSE,
          cache |-> adoptDataset(monsters, n, t, t),
          file |-> [exists |-> TRUE, valid |-> TRUE, mtime |-> t, data |-> monsters,
                    n |-> n]]

\* The caller lets the error of the download through.
getOsrsBoxCacheAfterFetch_Rethrow(fetchThrew, cache) ==
    [threw |-> fetchThrew, ret |-> IF fetchThrew THEN Null ELSE cache.data]

\* getOsrsBoxCache after its await: try { ...; return osrsBoxCache }
\* catch { return null }.
getOsrsBoxCacheAfterFetch(fetchThrew, cache) ==
    [threw |-> FALSE, ret |-> IF fetchThrew THEN Null ELSE cache.data]

\* What a dataset tool answers once getOsrsBoxCache has ended as g.
monsterToolAnswer(g) ==
    IF g.threw THEN "thrown"
    ELSE IF g.ret = Null THEN "unavailable"
    ELSE "data"

\* What update_osrsbox_data answers.
updateOsrsBoxAnswer(fetchThrew) == IF fetchThrew THEN "error" ELSE "result"

\* ----------------------------------------------------- dataset queries
\* Array.prototype.sort((a, b) => b.rarity - a.rarity): stable, descending.
InsertDesc(sorted, e) ==
    LET k == Cardinality({i \in 1..Len(sorted) : sorted[i].rarity >= e.rarity})
    IN  SubSeq(sorted, 1, k) \o <<e>> \o SubSeq(sorted, k + 1, Len(sorted))

RECURSIVE SortDesc(_)
SortDesc(arr) ==
    IF arr = << >> THEN << >>
    ELSE InsertDesc(SortDesc(SubSeq(arr, 1, Len(arr) - 1)), arr[Len(arr)])

\* Array.prototype.slice(from, to) with 0 <= from <= to.
Slice(arr, from, to) ==
    SubSeq(arr, from + 1, IF to < Len(arr) THEN to ELSE Len(arr))

\* A tool request on the dataset; the fields a tool does not take keep
\* these values.
NoQuery == [tool |-> "none", id |-> 0, name |-> << >>, page |-> 1, pageSize |-> 1,
            hasMin |-> FALSE, min_rarity |-> 0, limit |-> 1]

\* osrs_get_monster_drops once the cache is at hand (include_ge_prices unset).
osrs_get_monster_drops(cache, q) ==
    LET i == CacheIndex(cache.monsters, q.id)
    IN  IF i = 0
        THEN [cache |-> cache, answer |-> "notfound", result |-> << >>]
        ELSE [cache |-> cache, answer |-> "data", result |-> cache.monsters[i].value.drops]

\* The monsters of the name index entries from the i-th on whose name
\* includes searchLower, in index order.
RECURSIVE SearchLoop(_, _, _)
SearchLoop(cache, searchLower, i) ==
    IF i > Len(cache.monsterNameIndex) THEN << >>
    ELSE LET e == cache.monsterNameIndex[i]
             known == SelectSeq(e.value, LAMBDA id : CacheIndex(cache.monsters, id) # 0)
             here == IF Includes(e.key, searchLower)
                     THEN [k \in 1..Len(known) |->
                             cache.monsters[CacheIndex(cache.monsters, known[k])].value]
                     ELSE << >>
         IN here \o SearchLoop(cache, searchLower, i + 1)

\* osrs_search_monster_drops once the cache is at hand.
osrs_search_monster_drops(cache, q) ==
    LET matchingMonsters == SearchLoop(cache, ToLowerCase(q.name), 1)
        startIndex == (q.page - 1) * q.pageSize
    IN  IF matchingMonsters = << >>
        THEN [cache |-> cache, answer |-> "notfound", result |-> << >>]
        ELSE [cache |-> cache, answer |-> "data",
              result |-> IF startIndex >= Len(matchingMonsters) THEN << >>
                         ELSE Slice(matchingMonsters, startIndex, startIndex + q.pageSize)]

\* osrs_get_item_sources applying the limit before it sorts.
osrs_get_item_sources_SliceFirst(cache, q) ==
    LET held == MapValueOrEmpty(cache.itemDropIndex, q.id)
        sources == IF q.hasMin
                   THEN SelectSeq(held, LAMBDA s : s.rarity >= q.min_rarity)
                   ELSE held
    IN  [cache |-> cache,
         answer |-> "data",
         result |-> SortDesc(Slice(sources, 0, q.limit))]

\* The sources of one item filtered, sorted and limited.  Without
\* min_rarity, sources is the array the index holds, and sort works in place.
osrs_get_item_sources(cache, q) ==
    LET i == CacheIndex(cache.itemDropIndex, q.id)
        held == MapValueOrEmpty(cache.itemDropIndex, q.id)
        sources == IF q.hasMin
                   THEN SelectSeq(held, LAMBDA s : s.rarity >= q.min_rarity)
                   ELSE held
        sorted == SortDesc(sources)
    IN  [cache |-> IF q.hasMin \/ i = 0 THEN cache
                   ELSE [cache EXCEPT !.itemDropIndex[i].value = sorted],
         answer |-> "data",
         result |-> Slice(sorted, 0, q.limit)]

\* matchedItems.slice(0, 20), scaled.
MATCH_LIMIT == 2

\* The loop over cache.itemDropIndex, from its i-th entry on: the items
\* whose name, read from the drop list of the monster of their first
\* source, includes searchLower.
RECURSIVE matchedItems(_, _, _)
matchedItems(cache, searchLower, i) ==
    IF i > Len(cache.itemDropIndex) THEN << >>
    ELSE LET e == cache.itemDropIndex[i]
             mi == IF e.value = << >> THEN 0
                   ELSE CacheIndex(cache.monsters, e.value[1].monsterId)
             drops == IF mi = 0 THEN << >>
                      ELSE SelectSeq(cache.monsters[mi].value.drops, LAMBDA d : d.id = e.key)
         IN  (IF drops # << >> /\ Includes(ToLowerCase(drops[1].name), searchLower)
              THEN << [id |-> e.key, name |-> drops[1].name] >> ELSE << >>)
                 \o matchedItems(cache, searchLower, i + 1)

\* The by-name lookup answering with the sources of its first match.
itemSourcesByName_FirstMatch(cache, q) ==
    LET matched == matchedItems(cache, ToLowerCase(q.name), 1)
    IN  IF matched = << >>
        THEN [cache |-> cache, answer |-> "notfound", result |-> << >>]
        ELSE osrs_get_item_sources(cache, [q EXCEPT !.id = matched[1].id])

\* osrs_get_item_sources by item_name once the cache is at hand.
itemSourcesByName(cache, q) ==
    LET matched == matchedItems(cache, ToLowerCase(q.name), 1)
    IN  IF matched = << >>
        THEN [cache |-> cache, answer |-> "notfound", result |-> << >>]
        ELSE IF Len(matched) > 1
        THEN [cache |-> cache, answer |-> "multiple",
              result |-> Slice(matched, 0, MATCH_LIMIT)]
        ELSE osrs_get_item_sources(cache, [q EXCEPT !.id = matched[1].id])

\* The generic dataset tool of GetOsrsBoxCache answers without a query.
runDatasetTool(cache, q) ==
    IF q.tool = "drops" THEN osrs_get_monster_drops(cache, q)
    ELSE IF q.tool = "search" THEN osrs_search_monster_drops(cache, q)
    ELSE IF q.tool = "sources" /\ q.id # 0 THEN osrs_get_item_sources(cache, q)
    ELSE IF q.tool = "sources" THEN itemSourcesByName(cache, q)
    ELSE [cache |-> cache, answer |-> "data", result |-> << >>]

IdleBoxCall == [pc |-> "idle", tool |-> "none", save |-> FALSE, q |-> NoQuery]
NoLastB == [op |-> "none", c |-> 0, force |-> FALSE, source |-> "none",
            memHeld |-> FALSE, memAge |-> 0, diskHeld |-> FALSE, diskAge |-> 0,
            ret |-> Null, threw |-> FALSE, saved |-> FALSE, dryRun |-> FALSE, n |-> 0,
            tool |-> "none", outcome |-> "none", answer |-> "none",
            q |-> NoQuery, result |-> << >>, dataAge |-> 0]

\* How long before the clock reading that let it through the dataset that
\* getOsrsBoxCache answers (r) was downloaded: the reading t1 of the memory
\* test, or t2 of the disk test.
DataAge(r, t1, t2) ==
    IF r.source = "memory" THEN t1 - r.cache.fetched
    ELSE IF r.source = "disk" THEN t2 - r.cache.fetched
    ELSE 0

\* The item-name lookup of osrs_get_item_sources: getEntryById on
\* objtypes.txt when that file exists; other tools read no file.
itemNameLookup(fc, ix, dsk, q, t) ==
    IF q.tool = "sources" /\ q.id # 0 /\ dsk[ObjTypesPath].exists
    THEN LET e == getEntryById(fc, ix, dsk, ObjTypesPath, q.id, t, t, t)
         IN  [threw |-> e.threw, fileCache |-> e.fileCache, idIndexCache |-> e.idIndexCache]
    ELSE [threw |-> FALSE, fileCache |-> fc, idIndexCache |-> ix]

\* The requests the dataset tools are called with.
Queries ==
    {[NoQuery EXCEPT !.tool = "drops", !.id = id] : id \in MonsterIds}
    \cup {[NoQuery EXCEPT !.tool = "search", !.name = nm, !.page = pg, !.pageSize = ps] :
            nm \in {<<"g">>, <<"G", "O">>, <<"x">>}, pg \in 1..2, ps \in {2}}
    \cup {[NoQuery EXCEPT !.tool = "sources", !.id = id, !.hasMin = TRUE,
                          !.min_rarity = mr, !.limit = lim] :
            id \in {1, 3}, mr \in {2, 3}, lim \in 1..3}
    \cup {[NoQuery EXCEPT !.tool = "sources", !.id = id, !.limit = lim] :
            id \in {1, 3}, lim \in {1, 3}}
    \cup {[NoQuery EXCEPT !.tool = "sources", !.name = nm, !.limit = 3] :
            nm \in {<<"A">>, <<"g">>, <<"i">>, <<"x">>}}

InitBox ==
    /\ osrsBoxCache = NoBoxCache
    /\ boxFile = NoBoxFile
    /\ boxCalls = [c \in Callers |-> IdleBoxCall]
    /\ lastB = NoLastB

BoxFreeSlot(c) ==
    /\ boxCalls[c].pc = "idle"
    /\ \A d \in Callers : d < c => boxCalls[d].pc # "idle"

TickBox ==
    /\ now < MaxTime
    /\ now' = now + 1
    /\ lastB' = [NoLastB EXCEPT !.op = "tick"]
    /\ UNCHANGED <<netVars, fileVars, osrsBoxCache, boxFile, boxCalls>>

\* A tool asks for the dataset (osrs_get_monster_drops and its siblings).
GetOsrsBoxCache(c, forceRefresh, t2) ==
    /\ BoxFreeSlot(c)
    /\ LET r == getOsrsBoxCache(osrsBoxCache, boxFile, forceRefresh, now, t2)
       IN /\ osrsBoxCache' = r.cache
          /\ boxCalls' = IF r.source = "remote"
                         THEN [boxCalls EXCEPT ![c] =
                                 [pc |-> "await", tool |-> "get", save |-> TRUE, q |-> NoQuery]]
                         ELSE boxCalls
          /\ lastB' = [NoLastB EXCEPT !.op = "getCache", !.c = c,
                         !.force = forceRefresh, !.source = r.source,
                         !.memHeld = osrsBoxCache.present,
                         !.memAge = now - osrsBoxCache.timestamp,
                         !.diskHeld = boxFile.exists /\ boxFile.valid,
                         !.diskAge = t2 - boxFile.mtime,
                         !.dataAge = DataAge(r, now, t2),
                         !.ret = r.ret, !.tool = "get",
                         !.answer = IF r.source = "remote" THEN "none"
                                    ELSE monsterToolAnswer([threw |-> FALSE, ret |-> r.ret])]
    /\ now' = t2
    /\ UNCHANGED <<netVars, fileVars, boxFile>>

\* update_osrsbox_data up to its await.
UpdateOsrsBox(c, dryRun) ==
    /\ BoxFreeSlot(c)
    /\ boxCalls' = [boxCalls EXCEPT ![c] =
                      [pc |-> "await", tool |-> "update", save |-> ~dryRun, q |-> NoQuery]]
    /\ lastB' = [NoLastB EXCEPT !.op = "update", !.c = c, !.source = "remote",
                                 !.dryRun = dryRun]
    /\ UNCHANGED <<now, netVars, fileVars, osrsBoxCache, boxFile>>

\* The query of a dataset tool, run when the tool has a cache at hand.
queryAnswer(asked, cache, q) ==
    IF asked THEN runDatasetTool(cache, q)
    ELSE [cache |-> cache, answer |-> "none", result |-> << >>]

queryLookup(asked, fc, ix, dsk, q, t) ==
    IF asked THEN itemNameLookup(fc, ix, dsk, q, t)
    ELSE [threw |-> FALSE, fileCache |-> fc, idIndexCache |-> ix]

\* The state after the download of call c: r is what fetchOsrsBoxData did,
\* g what getOsrsBoxCache returns, d and f what the tool's query did.
SettleBoxEnd(c, call, outcome, n, r, g, asked, d, f) ==
    /\ osrsBoxCache' = d.cache
    /\ boxFile' = r.file
    /\ fileCache' = f.fileCache
    /\ idIndexCache' = f.idIndexCache
    /\ lastB' = [NoLastB EXCEPT !.op = "fetched", !.c = c,
                   !.source = "remote", !.threw = r.threw,
                   !.saved = ~r.threw /\ call.save,
                   !.dryRun = ~call.save, !.n = n,
                   !.memHeld = r.cache.present,
                   !.tool = call.tool, !.outcome = outcome,
                   !.ret = IF call.tool # "update" THEN g.ret ELSE Null,
                   !.dataAge = IF r.cache.present THEN now - r.cache.fetched ELSE 0,
                   !.q = call.q, !.result = d.result,
                   !.answer = IF call.tool = "update" THEN updateOsrsBoxAnswer(r.threw)
                              ELSE IF asked THEN d.answer
                              ELSE monsterToolAnswer(g)]
    /\ boxCalls' = [boxCalls EXCEPT ![c] = IdleBoxCall]
    /\ UNCHANGED <<now, netVars, disk, lastF>>

SettleBoxReturned(c, call, outcome, n, r, g, asked) ==
    SettleBoxEnd(c, call, outcome, n, r, g, asked,
                 queryAnswer(asked, r.cache, call.q),
                 queryLookup(asked, fileCache, idIndexCache, disk, call.q, now))

SettleBoxFetched(c, call, outcome, n, r, g) ==
    SettleBoxReturned(c, call, outcome, n, r, g,
                      call.tool # "update" /\ monsterToolAnswer(g) = "data")

\* The download of call c ends; fetchOsrsBoxData and its caller run on.
SettleBox(c, outcome, n, monsters) ==
    /\ boxCalls[c].pc = "await"
    /\ LET r == fetchOsrsBoxData(osrsBoxCache, boxFile, boxCalls[c].save,
                                 outcome, n, monsters, now)
       IN  SettleBoxFetched(c, boxCalls[c], outcome, n, r,
                            getOsrsBoxCacheAfterFetch(r.threw, r.cache))

DatasetToolEnd(c, q, t2, r, asked, d, f) ==
    /\ osrsBoxCache' = d.cache
    /\ fileCache' = f.fileCache
    /\ idIndexCache' = f.idIndexCache
    /\ boxCalls' = IF asked THEN boxCalls
                   ELSE [boxCalls EXCEPT ![c] =
                           [pc |-> "await", tool |-> q.tool, save |-> TRUE, q |-> q]]
    /\ lastB' = [NoLastB EXCEPT !.op = "tool", !.c = c, !.source = r.source,
                   !.ret = r.ret, !.tool = q.tool, !.q = q,
                   !.dataAge = DataAge(r, now, t2),
                   !.result = d.result, !.answer = d.answer]
    /\ now' = t2
    /\ UNCHANGED <<netVars, disk, lastF, boxFile>>

DatasetToolGot(c, q, t2, r, asked) ==
    DatasetToolEnd(c, q, t2, r, asked,
                   queryAnswer(asked, r.cache, q),
                   queryLookup(asked, fileCache, idIndexCache, disk, q, t2))

\* A dataset tool (osrs_get_monster_drops, osrs_search_monster_drops,
\* osrs_get_item_sources) up to its await of a download, or to its end when
\* getOsrsBoxCache answers from memory or disk.
DatasetTool(c, q, t2) ==
    /\ BoxFreeSlot(c)
    /\ LET r == getOsrsBoxCache(osrsBoxCache, boxFile, FALSE, now, t2)
       IN  DatasetToolGot(c, q, t2, r, r.source # "remote")

\* The server process is started again: module state is new, the data
\* directory is what the last run left.
RestartBox ==
    /\ osrsBoxCache.present \/ \E c \in Callers : boxCalls[c].pc # "idle"
    /\ osrsBoxCache' = NoBoxCache
    /\ boxCalls' = [c \in Callers |-> IdleBoxCall]
    /\ lastB' = [NoLastB EXCEPT !.op = "restart"]
    /\ UNCHANGED <<now, netVars, fileVars, boxFile>>

\* The snapshot file is damaged or removed from outside the program.
DamageBoxFile ==
    /\ boxFile.exists /\ boxFile.valid
    /\ boxFile' = [boxFile EXCEPT !.valid = FALSE, !.mtime = now]
    /\ lastB' = [NoLastB EXCEPT !.op = "damage"]
    /\ UNCHANGED <<now, netVars, fileVars, osrsBoxCache, boxCalls>>

DeleteBoxFile ==
    /\ boxFile.exists
    /\ boxFile' = NoBoxFile
    /\ lastB' = [NoLastB EXCEPT !.op = "delete"]
    /\ UNCHANGED <<now, netVars, fileVars, osrsBoxCache, boxCalls>>

\* The responses a download can end with: a failed request carries no
\* records, and the records of a rejected response are never looked at.
BoxResponse(outcome, n, monsters) ==
    /\ outcome = "fail" => n = 0
    /\ outcome \in {"nowrite", "partwrite"} => n = MIN_ENTRIES
    /\ n < MIN_ENTRIES => monsters = 1

NextBox ==
    \/ TickBox
    \/ \E c \in Callers, forceRefresh \in BOOLEAN, t2 \in Later(now) :
          GetOsrsBoxCache(c, forceRefresh, t2)
    \/ \E c \in Callers, dryRun \in BOOLEAN : UpdateOsrsBox(c, dryRun)
    \/ \E c \in Callers, outcome \in BoxOutcomes, n \in Counts, monsters \in Vals :
          /\ BoxResponse(outcome, n, monsters)
          /\ SettleBox(c, outcome, n, monsters)
    \/ RestartBox
    \/ DamageBoxFile
    \/ DeleteBoxFile

\* ------------------------------------------------------- filename tools
\* search_data_file, get_file_details, search_regex and get_id_range take
\* the name of a data file.  A path is the sequence of its segments.
DataName == <<"d", "a", "t", "a">>
\* path.join(__dirname, 'data')
DATA_DIR == << <<"d", "i", "s", "t">>, DataName >>
ObjTypesName == <<"o", "b", "j", "t", "y", "p", "e", "s", ".", "t", "x", "t">>
SoundIdsName == <<"s", "o", "u", "n", "d", "i", "d", "s", ".", "t", "x", "t">>

\* str.split('/') from the i-th character on, cur being the piece begun.
RECURSIVE SplitPath(_, _, _)
SplitPath(str, i, cur) ==
    IF i > Len(str) THEN <<cur>>
    ELSE IF str[i] = "/" THEN <<cur>> \o SplitPath(str, i + 1, <<>>)
    ELSE SplitPath(str, i + 1, Append(cur, str[i]))

\* path.normalize: empty and '.' segments are dropped, '..' removes the
\* segment before it (nothing at the root).
RECURSIVE Normalize(_, _, _)
Normalize(segs, i, stack) ==
    IF i > Len(segs) THEN stack
    ELSE IF segs[i] = <<>> \/ segs[i] = <<".">> THEN Normalize(segs, i + 1, stack)
    ELSE IF segs[i] = <<".", ".">>
    THEN Normalize(segs, i + 1,
                   IF stack = <<>> THEN stack ELSE SubSeq(stack, 1, Len(stack) - 1))
    ELSE Normalize(segs, i + 1, Append(stack, segs[i]))

\* path.join(dir, filename) (POSIX)
PathJoin(dir, filename) == Normalize(SplitPath(filename, 1, <<>>), 1, dir)

\* The path is the data directory or lies below it.
InDataDir(path) ==
    Len(path) >= Len(DATA_DIR) /\ SubSeq(path, 1, Len(DATA_DIR)) = DATA_DIR

\* The path is the data directory or one of the directories above it.
IsDirectory(path) ==
    Len(path) <= Len(DATA_DIR) /\ path = SubSeq(DATA_DIR, 1, Len(path))

\* The path names one of the data files, and the cache key of that file.
KnownFile(path) ==
    path \in {DATA_DIR \o <<ObjTypesName>>, DATA_DIR \o <<SoundIdsName>>}
PathKey(path) == IF path = DATA_DIR \o <<ObjTypesName>> THEN ObjTypesPath ELSE SoundIdsPath

\* fs.existsSync(path)
existsSync(dsk, path) ==
    IsDirectory(path) \/ (KnownFile(path) /\ dsk[PathKey(path)].exists)

\* getCachedFileLines(path): a directory is never cached and reading it
\* throws; so does reading a path that names nothing.
readLinesAt(fc, ix, dsk, path, t) ==
    IF KnownFile(path) THEN getCachedFileLines(fc, ix, dsk, PathKey(path), t)
    ELSE [threw |-> TRUE, lines |-> <<>>, read |-> FALSE, fileCache |-> fc,
          idIndexCache |-> ix]

\* buildIdIndex(path) followed by getCachedFileLines(path), as get_id_range
\* calls them.
rangeLinesAt(fc, ix, dsk, path, t1, t2, t3) ==
    IF KnownFile(path)
    THEN LET b == buildIdIndex(fc, ix, dsk, PathKey(path), t1, t2)
         IN  IF b.threw
             THEN [threw |-> TRUE, lines |-> <<>>, read |-> b.read,
                   fileCache |-> b.fileCache, idIndexCache |-> b.idIndexCache]
             ELSE getCachedFileLines(b.fileCache, b.idIndexCache, dsk, PathKey(path), t3)
    ELSE readLinesAt(fc, ix, dsk, path, t2)

\* filename.includes('..') || filename.includes('/') || filename.includes('\\')
IsInvalidFilename(filename) ==
    \/ Includes(filename, <<".", ".">>)
    \/ Includes(filename, <<"/">>)
    \/ Includes(filename, <<"\\">>)

\* What a filename tool reports: whether it threw, its answer, the paths it
\* handed to the file system, whether it looked into a cache, whether it read
\* a file, and the two caches afterwards.
ToolReport(threw, answer, accessed, g) ==
    [threw |-> threw, answer |-> answer, accessed |-> accessed, cacheRead |-> TRUE,
     read |-> g.read, fileCache |-> g.fileCache, idIndexCache |-> g.idIndexCache]
ToolStopped(threw, answer, accessed, fc, ix) ==
    [threw |-> threw, answer |-> answer, accessed |-> accessed, cacheRead |-> FALSE,
     read |-> FALSE, fileCache |-> fc, idIndexCache |-> ix]

\* The handler of a filename tool after its security check.
fileToolBody(fc, ix, dsk, req, path, t1, t2, t3) ==
    IF req.tool = "get_file_details"
    THEN \* getFileDetails: errors of the line count are caught
         IF ~existsSync(dsk, path) THEN ToolStopped(FALSE, "nodetails", {path}, fc, ix)
         ELSE ToolReport(FALSE, "details", {path}, readLinesAt(fc, ix, dsk, path, t2))
    ELSE IF ~existsSync(dsk, path) THEN ToolStopped(FALSE, "notfound", {path}, fc, ix)
    ELSE IF req.tool = "get_id_range"
    THEN IF req.startId > req.endId THEN ToolStopped(FALSE, "badrange", {path}, fc, ix)
         ELSE LET g == rangeLinesAt(fc, ix, dsk, path, t1, t2, t3)
              IN  ToolReport(g.threw, IF g.threw THEN "threw" ELSE "results", {path}, g)
    ELSE LET g == readLinesAt(fc, ix, dsk, path, t2)
             bad == g.threw \/ (req.tool = "search_regex" /\ req.badPattern)
         IN  ToolReport(bad, IF bad THEN "threw" ELSE "results", {path}, g)

\* The handler without its security check.
fileTool_Unchecked(fc, ix, dsk, req, t1, t2, t3) ==
    fileToolBody(fc, ix, dsk, req, PathJoin(DATA_DIR, req.filename), t1, t2, t3)

\* The handler of search_data_file, get_file_details, search_regex and
\* get_id_range.
fileTool(fc, ix, dsk, req, t1, t2, t3) ==
    IF IsInvalidFilename(req.filename)
    THEN ToolStopped(TRUE, "threw", {}, fc, ix)
    ELSE fileToolBody(fc, ix, dsk, req, PathJoin(DATA_DIR, req.filename), t1, t2, t3)

\* The filenames asked for: a data file, a file that is not there, the data
\* directory itself, and names with '..', '/' or '\'.
Filenames ==
    { ObjTypesName, <<"x">>, <<".">>,
      <<".", ".", "/">> \o DataName \o <<"/">> \o ObjTypesName,
      <<"/">> \o ObjTypesName,
      <<"\\">> \o ObjTypesName,
      SoundIdsName \o <<".", ".">> }

NoFileRequest == [tool |-> "none", filename |-> <<>>, badPattern |-> FALSE,
                  startId |-> 1, endId |-> 1]
FileRequests ==
    {[NoFileRequest EXCEPT !.tool = tool, !.filename = f] :
        tool \in {"search_data_file", "get_file_details"}, f \in Filenames}
    \cup {[NoFileRequest EXCEPT !.tool = "search_regex", !.filename = f, !.badPattern = b] :
            f \in Filenames, b \in BOOLEAN}
    \cup {[NoFileRequest EXCEPT !.tool = "get_id_range", !.filename = f,
                                !.startId = a, !.endId = 3 - a] :
            f \in Filenames, a \in 1..2}

FileTool(req, t2, t3) ==
    /\ t2 <= t3
    /\ LET r == fileTool(fileCache, idIndexCache, disk, req, now, t2, t3)
       IN  /\ now' = IF r.cacheRead THEN t3 ELSE now
           /\ fileCache' = r.fileCache
           /\ idIndexCache' = r.idIndexCache
           /\ lastF' = [NoLastF EXCEPT !.op = "fileTool", !.tool = req.tool,
                                      !.filename = req.filename, !.threw = r.threw,
                                      !.read = r.read, !.accessed = r.accessed,
                                      !.cacheRead = r.cacheRead, !.answer = r.answer]
    /\ UNCHANGED <<netVars, boxVars, disk>>

NextNames ==
    \/ TickFile
    \/ \E p \in Paths : FileDelete(p)
    \/ \E req \in FileRequests, t2, t3 \in Later(now) : FileTool(req, t2, t3)

\* --------------------------------------------------------- lookup tools
\* line.split(/\t/) from the i-th character on, cur being the part begun.
RECURSIVE SplitTab(_, _, _)
SplitTab(line, i, cur) ==
    IF i > Len(line) THEN <<cur>>
    ELSE IF line[i] = "\t" THEN <<cur>> \o SplitTab(line, i + 1, <<>>)
    ELSE SplitTab(line, i + 1, Append(cur, line[i]))

\* !line.trim(): nothing but white space.
IsBlank(line) == \A i \in 1..Len(line) : line[i] \in {" ", "\t", "\r"}

\* name.toLowerCase().replace(/ /g, '_')
SearchName(name) ==
    [i \in 1..Len(name) |-> IF name[i] = " " THEN "_" ELSE ToLowerChar(name[i])]

\* The loop of findByExactName from line i on: the 1-based number of the
\* first line whose second part is the name, 0 for null.
RECURSIVE FindLoop(_, _, _)
FindLoop(lines, i, searchName) ==
    IF i > Len(lines) THEN 0
    ELSE LET parts == SplitTab(lines[i], 1, <<>>)
         IN  IF ~IsBlank(lines[i]) /\ Len(parts) >= 2 /\ ToLowerCase(parts[2]) = searchName
             THEN i
             ELSE FindLoop(lines, i + 1, searchName)

\* What a lookup tool reports.
LookupAnswer(threw, found, raw, g) ==
    [threw |-> threw, found |-> found, raw |-> raw,
     answer |-> IF threw THEN "threw" ELSE IF found THEN "entry" ELSE "error",
     read |-> g.read, fileCache |-> g.fileCache, idIndexCache |-> g.idIndexCache]

\* The report of a lookup by ID, from what getEntryById returned.
entryAnswer(entry) ==
    CHOOSE r \in {LookupAnswer(e.threw, e.found, e.raw, e) : e \in {entry}} : TRUE

\* findByExactName(filePath, name)
findByExactName(fc, ix, dsk, p, name, t) ==
    LET g == getCachedFileLines(fc, ix, dsk, p, t)
    IN  IF g.threw THEN LookupAnswer(TRUE, FALSE, <<>>, g)
        ELSE LET n == FindLoop(g.lines, 1, SearchName(name))
             IN  LookupAnswer(FALSE, n # 0, IF n = 0 THEN <<>> ELSE g.lines[n], g)

\* A lookup by ID or by name that goes to the file functions without asking
\* fileExists first.
lookupTool_NoExistsCheck(fc, ix, dsk, req, t1, t2, t3) ==
    IF req.tool = "by_name"
    THEN findByExactName(fc, ix, dsk, req.path, req.name, t2)
    ELSE entryAnswer(getEntryById(fc, ix, dsk, req.path, req.id, t1, t2, t3))

\* The handlers get_*_by_id and find_*_by_name: an absent file and a null
\* entry are answered with {error: ...}.
lookupTool(fc, ix, dsk, req, t1, t2, t3) ==
    IF ~dsk[req.path].exists
    THEN [threw |-> FALSE, found |-> FALSE, raw |-> <<>>, answer |-> "error",
          read |-> FALSE, fileCache |-> fc, idIndexCache |-> ix]
    ELSE IF req.tool = "by_name"
    THEN findByExactName(fc, ix, dsk, req.path, req.name, t2)
    ELSE entryAnswer(getEntryById(fc, ix, dsk, req.path, req.id, t1, t2, t3))

\* The lookups made, all on objtypes.txt (get_objtype_by_id,
\* find_objtype_by_name).
LookupNames == {<<"A">>, <<"c">>, <<"x">>}
LookupRequests ==
    {[tool |-> "by_id", path |-> ObjTypesPath, id |-> id, name |-> <<>>] : id \in {1, 3}}
    \cup {[tool |-> "by_name", path |-> ObjTypesPath, id |-> 0, name |-> nm] :
            nm \in LookupNames}

LookupTool(req, t2, t3) ==
    /\ t2 <= t3
    /\ \E r \in {lookupTool(fileCache, idIndexCache, disk, req, now, t2, t3)} :
           /\ now' = IF disk[req.path].exists THEN t3 ELSE now
           /\ fileCache' = r.fileCache
           /\ idIndexCache' = r.idIndexCache
           /\ lastF' = [NoLastF EXCEPT !.op = "lookup", !.tool = req.tool,
                                      !.path = req.path, !.id = req.id,
                                      !.name = req.name, !.threw = r.threw,
                                      !.read = r.read, !.found = r.found,
                                      !.raw = r.raw, !.answer = r.answer]
    /\ UNCHANGED <<netVars, boxVars, disk>>

\* The HTTP outcomes of the hiscores request: 200, 404, another failure.
HiscoreStatuses == {200, 404, 500}

\* osrs_hiscores answering a response without catching the 404.
osrs_hiscores_Rethrow(status) == IF status = 200 THEN "skills" ELSE "threw"

\* osrs_hiscores once the request has completed with the status.
osrs_hiscores(status) ==
    IF status = 200 THEN "skills" ELSE IF status = 404 THEN "error" ELSE "threw"

Hiscores(status) ==
    /\ last' = [NoLast EXCEPT !.op = "hiscores", !.status = status,
                              !.answer = osrs_hiscores(status)]
    /\ UNCHANGED <<now, wikiCache, pendingRequests, gePriceCache, calls, settled,
                   microtasks, fileVars, boxVars>>

NextLookup ==
    \/ TickFile
    \/ \E text \in Texts : FileChange(ObjTypesPath, text)
    \/ FileDelete(ObjTypesPath)
    \/ \E req \in LookupRequests, t2, t3 \in Later(now) : LookupTool(req, t2, t3)
    \/ \E status \in HiscoreStatuses : Hiscores(status)

\* The loop of get_id_range from id on: an ID of the index adds its entry,
\* named by the second part of its line, until limit entries are held.
RECURSIVE rangeLoop(_, _, _, _, _, _)
rangeLoop(idIndex, lines, id, endId, limit, results) ==
    IF id > endId \/ Len(results) >= limit THEN results
    ELSE IF id \notin DOMAIN idIndex
    THEN rangeLoop(idIndex, lines, id + 1, endId, limit, results)
    ELSE LET lineIndex == idIndex[id]
             parts == SplitTab(lines[lineIndex + 1], 1, <<>>)
         IN  rangeLoop(idIndex, lines, id + 1, endId, limit,
                       Append(results, [id |-> id,
                                        name |-> IF Len(parts) >= 2 THEN parts[2] ELSE <<>>,
                                        lineNumber |-> lineIndex + 1]))

\* get_id_range on a file that exists, from buildIdIndex on: line.split
\* throws when the index names a line the lines do not have.
get_id_range(fc, ix, dsk, p, startId, endId, limit, t1, t2, t3) ==
    LET b == buildIdIndex(fc, ix, dsk, p, t1, t2)
    IN  IF b.threw
        THEN [threw |-> TRUE, results |-> <<>>, fileCache |-> b.fileCache,
              idIndexCache |-> b.idIndexCache]
        ELSE LET g == getCachedFileLines(b.fileCache, b.idIndexCache, dsk, p, t3)
             IN  IF g.threw \/ \E id \in startId..endId :
                                   id \in DOMAIN b.index /\ b.index[id] + 1 > Len(g.lines)
                 THEN [threw |-> TRUE, results |-> <<>>, fileCache |-> g.fileCache,
                       idIndexCache |-> g.idIndexCache]
                 ELSE [threw |-> FALSE,
                       results |-> rangeLoop(b.index, g.lines, startId, endId, limit, <<>>),
                       fileCache |-> g.fileCache, idIndexCache |-> g.idIndexCache]

GetIdRange(p, startId, endId, limit, t2, t3) ==
    /\ t2 <= t3
    /\ disk[p].exists
    /\ startId <= endId
    /\ \E r \in {get_id_range(fileCache, idIndexCache, disk, p, startId, endId, limit,
                               now, t2, t3)} :
           /\ now' = t3
           /\ fileCache' = r.fileCache
           /\ idIndexCache' = r.idIndexCache
           /\ lastF' = [NoLastF EXCEPT !.op = "id_range", !.path = p, !.id = startId,
                                      !.n = endId, !.threw = r.threw, !.lines = r.results]
    /\ UNCHANGED <<netVars, boxVars, disk>>

\* Files in which several lines start with the same ID or carry the same
\* name: objtypes.txt holds any text of up to MaxLines of these lines and
\* is not changed while the tools run.
RepeatedLines ==
    { <<"1", "\t", "a">>, <<"1", "\t", "b">>, <<"0", "1", "\t", "a">>,
      <<"2", "\t", "b">>, <<"#", "1">> }
RepeatedTexts == UNION {[1..n -> RepeatedLines] : n \in 1..MaxLines}
EntryRequests ==
    {[tool |-> "by_id", path |-> ObjTypesPath, id |-> id, name |-> <<>>] : id \in {1, 2}}
    \cup {[tool |-> "by_name", path |-> ObjTypesPath, id |-> 0, name |-> nm] :
            nm \in {<<"a">>, <<"B">>}}

InitEntries ==
    /\ InitNet
    /\ \E text \in RepeatedTexts :
          disk = [p \in Paths |-> [exists |-> TRUE,
                                   text |-> IF p = ObjTypesPath THEN text ELSE TextA]]
    /\ fileCache = [p \in Paths |-> NoSnapshot]
    /\ idIndexCache = [p \in Paths |-> NoIndex]
    /\ lastF = NoLastF
    /\ InitBox

NextEntries ==
    \/ TickFile
    \/ \E req \in EntryRequests, t2, t3 \in Later(now) : LookupTool(req, t2, t3)
    \/ \E startId \in 1..2, limit \in {1, 100}, t2, t3 \in Later(now) :
          GetIdRange(ObjTypesPath, startId, 2, limit, t2, t3)

\* ------------------------------------------------------------ search_regex
\* A RegExp made of a literal pattern and a set of the flags g, i and y,
\* with its lastIndex. The pattern is at the 0-based index i of the line.
MatchAt(line, pattern, i, ignoreCase) ==
    /\ i + Len(pattern) <= Len(line)
    /\ \A k \in 1..Len(pattern) :
          IF ignoreCase THEN ToLowerChar(line[i + k]) = ToLowerChar(pattern[k])
          ELSE line[i + k] = pattern[k]

\* regex.test(line): without g and y the search starts at 0 and lastIndex
\* is left alone; with g it starts at lastIndex, with y it is tried at
\* lastIndex only, and lastIndex becomes the end of the match, or 0 when
\* there is none.
regexTest(regex, line) ==
    LET ignoreCase == "i" \in regex.flags
        stateful == "g" \in regex.flags \/ "y" \in regex.flags
        from == IF stateful THEN regex.lastIndex ELSE 0
        tried == IF "y" \in regex.flags THEN {from} ELSE from..Len(line)
        found == {i \in tried : MatchAt(line, regex.pattern, i, ignoreCase)}
        first == CHOOSE i \in found : \A j \in found : i <= j
    IN  IF from > Len(line) \/ found = {}
        THEN [result |-> FALSE, lastIndex |-> IF stateful THEN 0 ELSE regex.lastIndex]
        ELSE [result |-> TRUE,
              lastIndex |-> IF stateful THEN first + Len(regex.pattern)
                            ELSE regex.lastIndex]

\* The loop of searchFileRegex from line i on, with the one regex.
RECURSIVE regexLoop(_, _, _, _)
regexLoop(lines, i, regex, results) ==
    IF i > Len(lines) THEN results
    ELSE LET t == regexTest(regex, lines[i])
         IN  regexLoop(lines, i + 1, [regex EXCEPT !.lastIndex = t.lastIndex],
                       IF t.result
                       THEN Append(results, [line |-> lines[i], lineNumber |-> i])
                       ELSE results)

\* searchFileRegex over the lines of the file, the pattern being valid.
searchFileRegex(lines, pattern, flags, page, pageSize) ==
    LET results == regexLoop(lines, 1, [pattern |-> pattern, flags |-> flags,
                                        lastIndex |-> 0], <<>>)
        totalResults == Len(results)
        startIndex == (page - 1) * pageSize
    IN  [matched |-> results,
         results |-> Slice(results, startIndex, startIndex + pageSize),
         totalResults |-> totalResults,
         totalPages |-> (totalResults + pageSize - 1) \div pageSize]

\* The searches made: files of up to MaxLines of these lines, two literal
\* patterns, every set of the flags g, i and y.
RegexLines == {<<"a", "b">>, <<"a">>, <<"b", "a">>, <<"A">>, <<>>}
RegexTexts == UNION {[1..n -> RegexLines] : n \in 1..MaxLines}
RegexPatterns == {<<"a">>, <<"a", "b">>}
RegexFlags == SUBSET {"g", "i", "y"}

InitRegex ==
    /\ InitNetState
    /\ \E lines \in RegexTexts, pattern \in RegexPatterns, flags \in RegexFlags,
          page \in {1, 2}, pageSize \in {1, 10} :
          last = [NoLast EXCEPT !.op = "args",
                                !.input = [lines |-> lines, pattern |-> pattern,
                                           flags |-> flags, page |-> page,
                                           pageSize |-> pageSize]]
    /\ InitFile
    /\ InitBox

SearchFileRegex ==
    /\ last.op = "args"
    /\ last' = [last EXCEPT !.op = "search_regex",
                            !.output = searchFileRegex(last.input.lines, last.input.pattern,
                                                       last.input.flags, last.input.page,
                                                       last.input.pageSize)]
    /\ UNCHANGED <<now, wikiCache, pendingRequests, gePriceCache, calls, settled,
                   microtasks, fileVars, boxVars>>

NextRegex == SearchFileRegex

\* ------------------------------------------------------ content truncation
\* Indexes into strings are JavaScript's: the first character is at 0.
CharAt(str, i) == str[i + 1]
\* str.substring(from, to), both clamped to the string
Substring(str, from, to) ==
    SubSeq(str, from + 1, IF to < Len(str) THEN to ELSE Len(str))

\* \s, over the characters a content is made of here
WhiteSpace == {" ", "\n"}

\* str.trim()
RECURSIVE TrimStart(_)
TrimStart(str) ==
    IF str # <<>> /\ Head(str) \in WhiteSpace THEN TrimStart(Tail(str)) ELSE str
RECURSIVE TrimEnd(_)
TrimEnd(str) ==
    IF str # <<>> /\ str[Len(str)] \in WhiteSpace
    THEN TrimEnd(SubSeq(str, 1, Len(str) - 1)) ELSE str
Trim(str) == TrimEnd(TrimStart(str))

\* The suffix appended to a truncated content (scaled from 113 characters,
\* the first two of them newlines) and the look-ahead of the heading search
\* (scaled from 500: longer than the '\n', the '#'s and the space a heading
\* begins with, shorter than a content).
TruncationMsg == <<"\n", "\n", "*">>
LOOKAHEAD == 6

\* The number of '#' at index i and after.
RECURSIVE HashRun(_, _)
HashRun(str, i) ==
    IF i < Len(str) /\ CharAt(str, i) = "#" THEN 1 + HashRun(str, i + 1) ELSE 0

\* The index of the last character of the line that index c is in.
RECURSIVE LineEnd(_, _)
LineEnd(str, c) ==
    IF c + 1 < Len(str) /\ CharAt(str, c + 1) # "\n" THEN LineEnd(str, c + 1) ELSE c

\* #{2,3}\s+([^\n]+) with its first '#' at index h0, the match starting at
\* index i: two or three '#', then the longest run of white space that
\* still leaves a character other than '\n' to capture, and the capture up
\* to the end of its line.
HashesSpaceText(str, i, h0) ==
    LET h == HashRun(str, h0)
        s == h0 + h
        starts == {c \in (s + 1)..(Len(str) - 1) :
                      /\ \A k \in s..(c - 1) : CharAt(str, k) \in WhiteSpace
                      /\ CharAt(str, c) # "\n"}
    IN  IF h \in {2, 3} /\ starts # {}
        THEN LET c == CHOOSE x \in starts : \A y \in starts : y <= x
             IN  [ok |-> TRUE, index |-> i, level |-> h,
                  text |-> Substring(str, c, LineEnd(str, c) + 1),
                  end |-> LineEnd(str, c) + 1]
        ELSE [ok |-> FALSE, index |-> i, level |-> 0, text |-> <<>>, end |-> i]

\* /\n#{2,3}\s+([^\n]+)/ tried at index i
HeadingMatchAt(str, i) ==
    IF CharAt(str, i) = "\n" THEN HashesSpaceText(str, i, i + 1)
    ELSE [ok |-> FALSE, index |-> i, level |-> 0, text |-> <<>>, end |-> i]

\* [...str.matchAll(/\n#{2,3}\s+([^\n]+)/g)] from index i on: the matches
\* from left to right, each search resuming where the match before ended.
RECURSIVE HeadingMatches(_, _)
HeadingMatches(str, i) ==
    IF i >= Len(str) THEN <<>>
    ELSE LET m == HeadingMatchAt(str, i)
         IN  IF m.ok THEN <<m>> \o HeadingMatches(str, m.end)
             ELSE HeadingMatches(str, i + 1)

\* content.lastIndexOf('\n\n', from), -1 when there is none
LastParaBreak(content, from) ==
    LET at == {i \in 0..from : i + 1 < Len(content) /\ CharAt(content, i) = "\n"
                                /\ CharAt(content, i + 1) = "\n"}
    IN  IF at = {} THEN -1 ELSE CHOOSE i \in at : \A j \in at : j <= i

\* The result of truncateContent; hasSection = FALSE is truncatedAtSection
\* undefined.
TruncateResult(content, truncated, originalLength, hasSection, section) ==
    [content |-> content, truncated |-> truncated, originalLength |-> originalLength,
     hasSection |-> hasSection, truncatedAtSection |-> section]

\* The cut point and the section of truncateContent for targetLength > 0.
truncateAt(content, targetLength, msg) ==
    LET matches == HeadingMatches(Substring(content, 0, targetLength + LOOKAHEAD), 0)
        before == {k \in 1..Len(matches) : matches[k].index <= targetLength}
        lastParaBreak == LastParaBreak(content, targetLength)
    IN  IF before # {}
        THEN LET k == CHOOSE x \in before : \A y \in before : y <= x
             IN  TruncateResult(Trim(Substring(content, 0, matches[k].index)) \o msg,
                                TRUE, Len(content), TRUE, Trim(matches[k].text))
        ELSE IF 2 * lastParaBreak > targetLength
        THEN TruncateResult(Trim(Substring(content, 0, lastParaBreak)) \o msg,
                            TRUE, Len(content), FALSE, <<>>)
        ELSE TruncateResult(Trim(Substring(content, 0, targetLength)) \o msg,
                            TRUE, Len(content), FALSE, <<>>)

\* truncateContent reserving no room for its suffix.
truncateContent_NoReserve(content, maxLength) ==
    IF Len(content) <= maxLength
    THEN TruncateResult(content, FALSE, Len(content), FALSE, <<>>)
    ELSE truncateAt(content, maxLength, TruncationMsg)

truncateContent(content, maxLength) ==
    IF Len(content) <= maxLength
    THEN TruncateResult(content, FALSE, Len(content), FALSE, <<>>)
    ELSE IF maxLength - Len(TruncationMsg) <= 0
    THEN TruncateResult(Trim(TruncationMsg), TRUE, Len(content), FALSE, <<>>)
    ELSE truncateAt(content, maxLength - Len(TruncationMsg), TruncationMsg)

\* The contents and lengths truncateContent is called with; the schema of
\* osrs_wiki_parse_page admits the lengths from MinContentLength on (scaled
\* from 1000..100000); the lengths tried are the one below it, it and the
\* one above it.
ContentChars == {"\n", "#", " ", "a"}
Contents == UNION {[1..n -> ContentChars] : n \in 0..MaxContent}
MinContentLength == Len(TruncationMsg) + 1
ContentLengths == (MinContentLength - 1)..(MinContentLength + 1)

InitTruncate ==
    /\ InitNetState
    /\ \E c \in Contents, n \in ContentLengths :
          last = [NoLast EXCEPT !.op = "args",
                                !.input = [content |-> c, maxLength |-> n]]
    /\ InitFile
    /\ InitBox

TruncateContent ==
    /\ last.op = "args"
    /\ last' = [last EXCEPT !.op = "truncate",
                            !.output = truncateContent(last.input.content,
                                                       last.input.maxLength)]
    /\ UNCHANGED <<now, wikiCache, pendingRequests, gePriceCache, calls, settled,
                   microtasks, fileVars, boxVars>>

NextTruncate == TruncateContent

\* ------------------------------------------------------- section filtering
\* /^(#{2,3})\s+(.+)$/gm tried at index i: ^ is the start of the content or
\* of a line, (.+) runs to the end of its line, where $ holds.
SectionMatchAt(str, i) ==
    IF i = 0 \/ CharAt(str, i - 1) = "\n" THEN HashesSpaceText(str, i, i)
    ELSE [ok |-> FALSE, index |-> i, level |-> 0, text |-> <<>>, end |-> i]

\* The while loop over sectionRegex.exec(content): title, level and start of
\* every match, each search resuming where the match before ended.
RECURSIVE SectionMatches(_, _)
SectionMatches(str, i) ==
    IF i >= Len(str) THEN <<>>
    ELSE LET mt == SectionMatchAt(str, i)
         IN  IF mt.ok
             THEN <<[title |-> Trim(mt.text), level |-> mt.level, start |-> mt.index]>>
                      \o SectionMatches(str, mt.end)
             ELSE SectionMatches(str, i + 1)

\* sectionTitleLower.includes(t) || t.includes(sectionTitleLower) for some
\* normalized title t
TitleMatches(title, normalizedTitles) ==
    \E k \in 1..Len(normalizedTitles) :
        \/ Includes(ToLowerCase(title), normalizedTitles[k])
        \/ Includes(normalizedTitles[k], ToLowerCase(title))

\* sections.filter(...): the sections whose title matches, in their order.
RECURSIVE FilterSections(_, _)
FilterSections(sections, normalizedTitles) ==
    IF sections = <<>> THEN <<>>
    ELSE IF TitleMatches(Head(sections).title, normalizedTitles)
    THEN <<Head(sections)>> \o FilterSections(Tail(sections), normalizedTitles)
    ELSE FilterSections(Tail(sections), normalizedTitles)

NoSectionsMsg == <<"*", "[", "N", "o", " ", "s", "e", "c", "t", "i", "o", "n", "s", "]", "*">>

extractSections(content, sectionTitles) ==
    IF sectionTitles = <<>> THEN content
    ELSE
    LET normalizedTitles == [k \in 1..Len(sectionTitles) |->
                                Trim(ToLowerCase(sectionTitles[k]))]
        matches == SectionMatches(content, 0)
        sections == [k \in 1..Len(matches) |->
                        [title |-> matches[k].title, level |-> matches[k].level,
                         start |-> matches[k].start,
                         content |-> Trim(Substring(content, matches[k].start,
                                        IF k < Len(matches) THEN matches[k + 1].start
                                        ELSE Len(content)))]]
        matchedSections == FilterSections(sections, normalizedTitles)
    IN  IF matchedSections = <<>>
        THEN NoSectionsMsg \o <<"\n">>
                 \o Join([k \in 1..Len(sections) |-> <<"-", " ">> \o sections[k].title],
                         <<"\n">>)
        ELSE Join([k \in 1..Len(matchedSections) |-> matchedSections[k].content],
                  <<"\n", "\n">>)

\* The contents extractSections is given: up to MaxLines lines, each a
\* heading of level 2 or 3 or a line of text; and the titles asked for.
HeadingLine(level, title) == [k \in 1..level |-> "#"] \o <<" ">> \o title
ContentLines == {HeadingLine(2, <<"A">>), HeadingLine(3, <<"c">>), HeadingLine(2, <<"c">>),
                 HeadingLine(3, <<"A">>), <<"t">>}
SectionContents == UNION {[1..n -> ContentLines] : n \in 0..MaxLines}
SectionTitles == {<<>>, <<<<"a">>>>, <<<<"A", " ">>>>, <<<<"c">>>>, <<<<"a", "c">>>>,
                  <<<<"x">>>>}

InitSections ==
    /\ InitNetState
    /\ \E lines \in SectionContents, titles \in SectionTitles :
          last = [NoLast EXCEPT !.op = "args",
                                !.input = [lines |-> lines,
                                           content |-> Join(lines, <<"\n">>),
                                           sectionTitles |-> titles]]
    /\ InitFile
    /\ InitBox

ExtractSections ==
    /\ last.op = "args"
    /\ last' = [last EXCEPT !.op = "sections",
                            !.output = extractSections(last.input.content,
                                                       last.input.sectionTitles)]
    /\ UNCHANGED <<now, wikiCache, pendingRequests, gePriceCache, calls, settled,
                   microtasks, fileVars, boxVars>>

NextSections == ExtractSections

\* ---------------------------------------------------- drop table extraction
\* A page is the sequence of the sibling elements that hold its tables: a
\* heading h2..h4 with its text, a table.wikitable with what its header
\* cells say and the cells of its data rows, or any other element.
Heading(level, text) == [kind |-> "h", level |-> level, text |-> text,
                         item |-> FALSE, rarity |-> FALSE, rows |-> <<>>]
WikiTable(item, rarity, rows) == [kind |-> "table", level |-> 0, text |-> "",
                                  item |-> item, rarity |-> rarity, rows |-> rows]
OtherElement == [kind |-> "p", level |-> 0, text |-> "",
                 item |-> FALSE, rarity |-> FALSE, rows |-> <<>>]
Row(cells, item, rarity) == [cells |-> cells, item |-> item, rarity |-> rarity]

\* hasItemCol && hasRarityCol
IsDropTable(e) == e.kind = "table" /\ e.item /\ e.rarity

NoHeading == [found |-> FALSE, level |-> 5, text |-> ""]

\* The walk over the siblings before a table, from index j backward: an h2
\* is taken and ends the walk, an h3 or h4 is taken when the best so far is
\* of a lower level (or none), and a wikitable with a rarity header ends
\* the walk.
RECURSIVE bestHeading(_, _, _)
bestHeading(page, j, best) ==
    IF j = 0 THEN best
    ELSE LET e == page[j]
             next == IF e.kind = "h" /\ e.level = 3 /\ best.level > 3
                     THEN [found |-> TRUE, level |-> 3, text |-> e.text]
                     ELSE IF e.kind = "h" /\ e.level = 4 /\ best.level > 4
                     THEN [found |-> TRUE, level |-> 4, text |-> e.text]
                     ELSE best
         IN  IF e.kind = "h" /\ e.level = 2
             THEN [found |-> TRUE, level |-> 2, text |-> e.text]
             ELSE IF e.kind = "table" /\ e.rarity THEN next
             ELSE bestHeading(page, j - 1, next)

\* currentCategory after the walk of the table at index k
tableCategory(page, k, currentCategory) ==
    LET best == bestHeading(page, k - 1, NoHeading)
    IN  IF best.found /\ best.text # "" THEN best.text ELSE currentCategory

\* The entries of the data rows of a table that are kept.
RECURSIVE tableDrops(_)
tableDrops(rows) ==
    IF rows = <<>> THEN <<>>
    ELSE LET r == Head(rows)
         IN  IF r.cells < 3 \/ r.item \in {"", "Nothing", "N/A"} \/ r.rarity = ""
             THEN tableDrops(Tail(rows))
             ELSE <<[item |-> r.item, rarity |-> r.rarity]>> \o tableDrops(Tail(rows))

\* dropSections with the drops of one table replacing those of its category.
addSection_Replace(dropSections, category, drops) ==
    IF drops = <<>> THEN dropSections
    ELSE IF \E i \in 1..Len(dropSections) : dropSections[i].category = category
    THEN [i \in 1..Len(dropSections) |->
             IF dropSections[i].category = category
             THEN [dropSections[i] EXCEPT !.drops = drops]
             ELSE dropSections[i]]
    ELSE Append(dropSections, [category |-> category, drops |-> drops])

\* dropSections after the drops of one table: pushed onto the section of
\* the category when there is one, a new section otherwise.
addSection(dropSections, category, drops) ==
    IF drops = <<>> THEN dropSections
    ELSE IF \E i \in 1..Len(dropSections) : dropSections[i].category = category
    THEN [i \in 1..Len(dropSections) |->
             IF dropSections[i].category = category
             THEN [dropSections[i] EXCEPT !.drops = @ \o drops]
             ELSE dropSections[i]]
    ELSE Append(dropSections, [category |-> category, drops |-> drops])

\* $('table.wikitable').each(...) from the element at index k on; categories
\* records, per element, the category its table was given ("" for an
\* element that is no drop table).
RECURSIVE eachTable(_, _, _, _, _)
eachTable(page, k, dropSections, currentCategory, categories) ==
    IF k > Len(page)
    THEN [sections |-> dropSections, categories |-> categories,
          currentCategory |-> currentCategory]
    ELSE IF ~IsDropTable(page[k])
    THEN eachTable(page, k + 1, dropSections, currentCategory, Append(categories, ""))
    ELSE LET category == tableCategory(page, k, currentCategory)
         IN  eachTable(page, k + 1,
                       addSection(dropSections, category, tableDrops(page[k].rows)),
                       category, Append(categories, category))

extractDropTable(page) == eachTable(page, 1, <<>>, "Drops", <<>>)

\* The elements a page is made of here.
Elements ==
    {Heading(l, t) : l \in {2, 3, 4}, t \in {"A", "B"}}
        \cup {WikiTable(TRUE, TRUE, <<Row(4, "x", "1/2")>>),
              WikiTable(TRUE, TRUE, <<Row(4, "Nothing", "Always"), Row(4, "y", "1/4")>>),
              WikiTable(TRUE, TRUE, <<Row(2, "z", "1/8")>>),
              WikiTable(FALSE, TRUE, <<Row(4, "w", "1/2")>>),
              OtherElement}
ParsedPages == UNION {[1..n -> Elements] : n \in 0..MaxElements}

InitDropTable ==
    /\ InitNetState
    /\ \E page \in ParsedPages : last = [NoLast EXCEPT !.op = "args", !.input = page]
    /\ InitFile
    /\ InitBox

ExtractDropTable ==
    /\ last.op = "args"
    /\ last' = [last EXCEPT !.op = "drop_table", !.output = extractDropTable(last.input)]
    /\ UNCHANGED <<now, wikiCache, pendingRequests, gePriceCache, calls, settled,
                   microtasks, fileVars, boxVars>>

NextDropTable == ExtractDropTable

\* A document whose tables do not all have the same parent: the sequence,
\* in document order, of the sibling lists its tables are in. prev() stays
\* within the sibling list of the table; $('table.wikitable').each goes
\* through the tables of the whole document with the one currentCategory.
RECURSIVE eachParent(_, _, _, _, _)
eachParent(document, g, dropSections, currentCategory, categories) ==
    IF g > Len(document)
    THEN [sections |-> dropSections, categories |-> categories,
          currentCategory |-> currentCategory]
    ELSE LET r == eachTable(document[g], 1, dropSections, currentCategory, <<>>)
         IN  eachParent(document, g + 1, r.sections, r.currentCategory,
                        Append(categories, r.categories))

extractDropTableOfDocument(document) == eachParent(document, 1, <<>>, "Drops", <<>>)

\* The sibling lists and documents tried: up to two parents, each holding
\* fewer than MaxElements of these elements.
NestedElements ==
    {Heading(2, "A"), Heading(3, "B"), OtherElement,
     WikiTable(TRUE, TRUE, <<Row(4, "x", "1/2")>>),
     WikiTable(FALSE, TRUE, <<Row(4, "w", "1/2")>>)}
SiblingLists == UNION {[1..n -> NestedElements] : n \in 0..(MaxElements - 1)}
Documents == UNION {[1..n -> SiblingLists] : n \in 1..2}

InitDropDocument ==
    /\ InitNetState
    /\ \E document \in Documents :
          last = [NoLast EXCEPT !.op = "args", !.input = document]
    /\ InitFile
    /\ InitBox

ExtractDropTableOfDocument ==
    /\ last.op = "args"
    /\ last' = [last EXCEPT !.op = "drop_document",
                            !.output = extractDropTableOfDocument(last.input)]
    /\ UNCHANGED <<now, wikiCache, pendingRequests, gePriceCache, calls, settled,
                   microtasks, fileVars, boxVars>>

NextDropDocument == ExtractDropTableOfDocument

\* ---------------------------------------------------------- rarity to percent
\* The multiplication sign of "2 × 1/128", one character.
MultiplySign == "times"

\* The run of characters of the set chars at index i and after.
RECURSIVE RunAt(_, _, _)
RunAt(str, i, chars) ==
    IF i < Len(str) /\ CharAt(str, i) \in chars
    THEN <<CharAt(str, i)>> \o RunAt(str, i + 1, chars) ELSE <<>>

\* The index after the white space at index i and after.
SkipSpace(str, i) == i + Len(RunAt(str, i, WhiteSpace))

\* rarity.match(/^(\d+)\s*[x×]\s*/i): the digits captured, <<>> without a
\* match.
multiplierMatch(rarity) ==
    LET ds == RunAt(rarity, 0, Digits)
        at == SkipSpace(rarity, Len(ds))
    IN  IF ds # <<>> /\ at < Len(rarity) /\ CharAt(rarity, at) \in {"x", "X", MultiplySign}
        THEN ds ELSE <<>>

\* /(\d+)\s*\/\s*([\d,]+)/ tried at index i: both captures.
fractionMatchAt(rarity, i) ==
    LET num == RunAt(rarity, i, Digits)
        slash == SkipSpace(rarity, i + Len(num))
        den == RunAt(rarity, SkipSpace(rarity, slash + 1), Digits \cup {","})
    IN  IF num # <<>> /\ slash < Len(rarity) /\ CharAt(rarity, slash) = "/" /\ den # <<>>
        THEN [ok |-> TRUE, num |-> num, den |-> den]
        ELSE [ok |-> FALSE, num |-> <<>>, den |-> <<>>]

\* rarity.match(/(\d+)\s*\/\s*([\d,]+)/): the leftmost match from index i on.
RECURSIVE fractionMatch(_, _)
fractionMatch(rarity, i) ==
    IF i >= Len(rarity) THEN [ok |-> FALSE, num |-> <<>>, den |-> <<>>]
    ELSE IF fractionMatchAt(rarity, i).ok THEN fractionMatchAt(rarity, i)
    ELSE fractionMatch(rarity, i + 1)

\* text.replace(/,/g, '')
RemoveCommas(text) == SelectSeq(text, LAMBDA ch : ch # ",")

RECURSIVE Power10(_)
Power10(d) == IF d = 0 THEN 1 ELSE 10 * Power10(d - 1)

\* The digits of n on d places, zeros in front.
RECURSIVE PadDigits(_, _)
PadDigits(n, d) ==
    IF d = 0 THEN <<>> ELSE PadDigits(n \div 10, d - 1) \o <<DigitChars[(n % 10) + 1]>>

\* (num / den).toFixed(d) for num >= 0, den > 0, in exact arithmetic: the
\* nearest multiple of 10^-d, the larger of two equally near.
toFixed(num, den, d) ==
    LET n == (2 * num * Power10(d) + den) \div (2 * den)
    IN  NumberToString(n \div Power10(d)) \o <<".">> \o PadDigits(n % Power10(d), d)

NoPercent == [present |-> FALSE, text |-> <<>>]
Percent(text) == [present |-> TRUE, text |-> text]

\* The percentage of multiplier * numerator / denominator, formatted.
formatPercent(multiplier, numerator, denominator) ==
    LET num == numerator * multiplier * 100
    IN  IF num >= denominator THEN Percent(toFixed(num, denominator, 2) \o <<"%">>)
        ELSE IF 100 * num >= denominator
        THEN Percent(toFixed(num, denominator, 3) \o <<"%">>)
        ELSE Percent(toFixed(num, denominator, 4) \o <<"%">>)

\* rarityToPercent taking no multiplier into account.
rarityToPercent_NoMultiplier(rarity) ==
    LET cleaned == Trim(ToLowerCase(rarity))
        fm == fractionMatch(rarity, 0)
    IN  IF cleaned = <<"a", "l", "w", "a", "y", "s">> THEN Percent(<<"1", "0", "0", "%">>)
        ELSE IF fm.ok /\ RemoveCommas(fm.den) # <<>> /\ ParseInt(RemoveCommas(fm.den)) > 0
        THEN formatPercent(1, ParseInt(fm.num), ParseInt(RemoveCommas(fm.den)))
        ELSE NoPercent

\* parseInt of an empty text is NaN, and NaN > 0 is false.
rarityToPercent(rarity) ==
    LET cleaned == Trim(ToLowerCase(rarity))
        mm == multiplierMatch(rarity)
        multiplier == IF mm # <<>> THEN ParseInt(mm) ELSE 1
        fm == fractionMatch(rarity, 0)
    IN  IF cleaned = <<"a", "l", "w", "a", "y", "s">> THEN Percent(<<"1", "0", "0", "%">>)
        ELSE IF cleaned = <<"c", "o", "m", "m", "o", "n">>
        THEN Percent(<<"~", "1", "0", "-", "2", "0", "%">>)
        ELSE IF cleaned = <<"u", "n", "c", "o", "m", "m", "o", "n">>
        THEN Percent(<<"~", "5", "-", "1", "0", "%">>)
        ELSE IF cleaned = <<"r", "a", "r", "e">> THEN Percent(<<"~", "1", "-", "5", "%">>)
        ELSE IF cleaned = <<"v", "e", "r", "y", " ", "r", "a", "r", "e">>
        THEN Percent(<<"<", "1", "%">>)
        ELSE IF fm.ok /\ RemoveCommas(fm.den) # <<>> /\ ParseInt(RemoveCommas(fm.den)) > 0
        THEN formatPercent(multiplier, ParseInt(fm.num), ParseInt(RemoveCommas(fm.den)))
        ELSE NoPercent

\* The rarity texts of drop table cells: a fraction with or without a
\* multiplier in front, each part written in several ways, and texts that
\* are no fraction.  Every text comes with the numbers it was written from.
Multipliers == {<<>>, <<"2">>, <<"1", "2">>, <<"0">>}
MultiplierSigns == {<<" ", "x", " ">>, <<"x">>, <<" ", MultiplySign, " ">>, <<"X", " ">>}
Numerators == {<<"1">>, <<"3">>, <<"2", "5">>}
Slashes == {<<"/">>, <<" ", "/", " ">>}
Denominators == {<<"1">>, <<"4">>, <<"1", "2", "8">>, <<"1", ",", "0", "2", "4">>, <<"3", "0", "0">>,
                 <<"0">>, <<"1", "0", "0">>, <<"3", "0", ",", "0", "0", "0">>, <<",">>}
OtherRarities == {<<"A", "l", "w", "a", "y", "s">>, <<"a", "l", "w", "a", "y", "s", " ">>,
                  <<"r", "a", "r", "e">>, <<"v", "a", "r", "i", "e", "s">>, <<>>,
                  <<"1", "2", "8">>, <<"1", "/">>, <<"x", " ", "2">>}
FractionRarity(k, sign, n, slash, d) ==
    [kind |-> "fraction",
     rarity |-> (IF k = <<>> THEN <<>> ELSE k \o sign) \o n \o slash \o d,
     k |-> IF k = <<>> THEN 1 ELSE ParseInt(k),
     n |-> ParseInt(n),
     d |-> ParseInt(RemoveCommas(d))]
RarityInputs ==
    {FractionRarity(k, sign, n, slash, d) :
        k \in Multipliers, sign \in MultiplierSigns, n \in Numerators,
        slash \in Slashes, d \in Denominators}
    \cup {[kind |-> "other", rarity |-> r, k |-> 1, n |-> 0, d |-> 0] : r \in OtherRarities}

InitRarity ==
    /\ InitNetState
    /\ \E in \in RarityInputs : last = [NoLast EXCEPT !.op = "args", !.input = in]
    /\ InitFile
    /\ InitBox

RarityToPercent ==
    /\ last.op = "args"
    /\ last' = [last EXCEPT !.op = "rarity", !.output = rarityToPercent(last.input.rarity)]
    /\ UNCHANGED <<now, wikiCache, pendingRequests, gePriceCache, calls, settled,
                   microtasks, fileVars, boxVars>>

NextRarity == RarityToPercent

\* ------------------------------------------------------ osrs_wiki_get_drops
\* The handler takes one page name or a list of them and, page by page,
\* answers from the response cache or fetches and parses the page.
WikiDrops == <<"w", "i", "k", "i", "_", "d", "r", "o", "p", "s">>
NamePage == <<"p", "a", "g", "e">>
DropPages == {<<"a">>, <<"b">>}
DropPageLists == {<<<<"a">>>>, <<<<"b">>>>, <<<<"a">>, <<"b">>>>}

\* getWikiCacheKey('wiki_drops', { page: pageName })
DropsKey(pageName) ==
    getWikiCacheKey(WikiDrops, <<[name |-> NamePage, value |-> StringValue(pageName)]>>)
DropKeys == {DropsKey(p) : p \in DropPages}

\* response.data?.parse?.text as the wiki may serve it: the page as it is
\* parsed, or the empty string when the page has no text.
NoHtml == <<>>
DropHtmls ==
    { <<Heading(2, "A"), WikiTable(TRUE, TRUE, <<Row(4, "x", "1/2")>>),
        Heading(2, "B"), WikiTable(TRUE, TRUE, <<Row(4, "y", "1/4")>>)>> }

\* dropTable.flatMap(section => section.drops)
RECURSIVE FlatMapDrops(_)
FlatMapDrops(dropTable) ==
    IF dropTable = <<>> THEN <<>>
    ELSE Head(dropTable).drops \o FlatMapDrops(Tail(dropTable))

\* results[pageName]: the page's data, or {error: message}.
PageData(data) == [error |-> "", data |-> data]
PageError(message) == [error |-> message, data |-> <<>>]

\* results[pageName] = value
SetResult(results, pageName, value) == (pageName :> value) @@ results

\* A call of the handler: its arguments, the index of the page its loop is
\* at, its results object, and how each page it has done was answered.
IdleDrops == [pc |-> "idle", tool |-> "none", key |-> <<>>, prom |-> 0, t0 |-> 0,
              pages |-> <<>>, include_categories |-> TRUE, idx |-> 0,
              results |-> <<>>, served |-> <<>>]

\* The end of one iteration of the loop once the fetch has settled, with the
\* {error} entry stored in the cache as well.
dropsAfterFetch_CacheError(call, cache, outcome, html, t) ==
    LET pageName == call.pages[call.idx]
        dropTable == extractDropTable(html).sections
        pageResult == IF call.include_categories THEN dropTable ELSE FlatMapDrops(dropTable)
        result == IF outcome = "fail" THEN PageError("Network Error")
                  ELSE IF html = NoHtml THEN PageError("Page not found")
                  ELSE PageData(pageResult)
        next == [call EXCEPT !.idx = @ + 1, !.served = Append(@, outcome),
                             !.results = SetResult(@, pageName, result)]
    IN  [call |-> next,
         cache |-> setWikiCache(cache, call.key,
                                IF result.error = "" THEN pageResult ELSE <<>>, t)]

\* The end of one iteration of the loop once the fetch has settled: the
\* catch clause when it failed, 'Page not found' when the response holds no
\* text, otherwise the page's result in the shape asked for, stored in the
\* cache and in results.
dropsAfterFetch(call, cache, outcome, html, t) ==
    LET pageName == call.pages[call.idx]
        dropTable == extractDropTable(html).sections
        pageResult == IF call.include_categories THEN dropTable ELSE FlatMapDrops(dropTable)
        result == IF outcome = "fail" THEN PageError("Network Error")
                  ELSE IF html = NoHtml THEN PageError("Page not found")
                  ELSE PageData(pageResult)
        next == [call EXCEPT !.idx = @ + 1, !.served = Append(@, outcome),
                             !.results = SetResult(@, pageName, result)]
    IN  [call |-> next,
         cache |-> IF result.error = "" THEN setWikiCache(cache, call.key, pageResult, t)
                   ELSE cache]

\* The loop of call c from the page at call.idx on, up to its next await or
\* to its end: a page found in the cache is answered with the cached value
\* (an array, truthy whenever it is there), the first page that is not makes
\* the call await fetchWithDedup.
RECURSIVE dropsLoop(_, _, _, _, _)
dropsLoop(c, call, cache, pend, t) ==
    IF call.idx > Len(call.pages)
    THEN [call |-> [call EXCEPT !.pc = "done"], cache |-> cache, pend |-> pend]
    ELSE LET pageName == call.pages[call.idx]
             cacheKey == DropsKey(pageName)
             got == getFromWikiCache(cache, cacheKey, t)
         IN  IF CacheIndex(got.cache, cacheKey) # 0
             THEN dropsLoop(c, [call EXCEPT !.idx = @ + 1, !.served = Append(@, "cached"),
                                            !.results = SetResult(@, pageName,
                                                                  PageData(got.ret))],
                            got.cache, pend, t)
             ELSE LET f == fetchWithDedup(pend, c, cacheKey)
                  IN  [call |-> [call EXCEPT !.pc = "await", !.key = cacheKey,
                                             !.prom = f.prom],
                       cache |-> got.cache, pend |-> f.pend]

\* What the handler returns: the one page's entry, or the results object.
dropsResponse(call) ==
    IF Len(call.pages) = 1 THEN call.results[call.pages[1]] ELSE call.results

\* The state after a part of the handler has run for call c: the call is
\* over when its loop is, and what it was asked and what it answered are
\* recorded.
DropsStep(c, r, op, ret) ==
    /\ wikiCache' = r.cache
    /\ pendingRequests' = r.pend
    /\ calls' = [calls EXCEPT ![c] = IF r.call.pc = "done" THEN IdleDrops ELSE r.call]
    /\ last' = [NoLast EXCEPT !.op = IF r.call.pc = "done" THEN "drops_return" ELSE op,
                              !.c = c, !.ret = ret,
                              !.cacheKey = IF ret = Null THEN <<>> ELSE calls[c].key,
                              !.input = [pages |-> r.call.pages,
                                         include_categories |-> r.call.include_categories],
                              !.output = [results |-> r.call.results,
                                          served |-> r.call.served,
                                          response |-> IF r.call.pc = "done"
                                                       THEN dropsResponse(r.call)
                                                       ELSE <<>>]]

InitDrops ==
    /\ now = 0
    /\ wikiCache = <<>>
    /\ pendingRequests = [k \in DropKeys |-> 0]
    /\ gePriceCache = [present |-> FALSE, data |-> Null, timestamp |-> 0]
    /\ calls = [c \in Callers |-> IdleDrops]
    /\ settled = NoSettled
    /\ microtasks = <<>>
    /\ last = NoLast
    /\ InitFile
    /\ InitBox

\* osrs_wiki_get_drops from the arrival of the call to its first await (or
\* to its return when every page is in the cache).
CallDrops(c, pages, include_categories) ==
    /\ Quiet
    /\ FreeSlot(c)
    /\ \E r \in {dropsLoop(c, [IdleDrops EXCEPT !.tool = "wiki_drops", !.pages = pages,
                                               !.include_categories = include_categories,
                                               !.idx = 1],
                           wikiCache, pendingRequests, now)} :
          DropsStep(c, r, "drops_call", Null)
    /\ UNCHANGED <<now, gePriceCache, settled, microtasks, fileVars, boxVars>>

\* The wiki answers the request made by call c: the promise settles, its
\* finally() callback runs, and the continuations of its awaiters are queued.
SettleDrops(c, outcome, html) ==
    /\ Quiet
    /\ InFlight(c)
    /\ (outcome = "ok") = (html # NoHtml)
    /\ microtasks' = Waiters(c)
    /\ settled' = [prom |-> c, outcome |-> outcome, val |-> html]
    /\ calls' = [d \in Callers |->
                    IF calls[d].pc = "await" /\ calls[d].prom = c
                    THEN [calls[d] EXCEPT !.pc = "ready"] ELSE calls[d]]
    /\ pendingRequests' = dedupFinally(pendingRequests, calls[c].key, outcome)
    /\ last' = [NoLast EXCEPT !.op = "drops_settle", !.c = c, !.prom = c]
    /\ UNCHANGED <<now, wikiCache, gePriceCache, fileVars, boxVars>>

\* The first queued continuation runs: the rest of the iteration after the
\* await, and the loop from the next page on.
ResumeDrops ==
    /\ microtasks # <<>>
    /\ LET c == Head(microtasks)
       IN  /\ microtasks' = Tail(microtasks)
           /\ settled' = IF Len(microtasks) = 1 THEN NoSettled ELSE settled
           /\ \E a \in {dropsAfterFetch(calls[c], wikiCache, settled.outcome,
                                        settled.val, now)} :
              \E r \in {dropsLoop(c, a.call, a.cache, pendingRequests, now)} :
                 DropsStep(c, r, "drops_resume",
                           IF settled.outcome = "ok" THEN 1
                           ELSE IF settled.outcome = "nohtml" THEN ResNoHtml ELSE ResFail)
    /\ UNCHANGED <<now, gePriceCache, fileVars, boxVars>>

NextDrops ==
    \/ Tick
    \/ \E c \in Callers, pages \in DropPageLists, include_categories \in BOOLEAN :
          CallDrops(c, pages, include_categories)
    \/ \E c \in Callers, o \in Outcomes, html \in DropHtmls \cup {NoHtml} :
          SettleDrops(c, o, html)
    \/ ResumeDrops

\* ---------------------------------------------------------- specifications
Init == InitNet /\ InitFile /\ InitBox

\* The wiki tools: response cache and request deduplicator.
SpecNet == Init /\ [][NextNet]_vars
\* The Grand Exchange price tools.
SpecGE == Init /\ [][NextGE]_vars
\* The data-file tools: line cache and ID index.
SpecFile == Init /\ [][NextFile]_vars
\* The monster dataset tools.
SpecBox == Init /\ [][NextBox]_vars
\* The drops tool of the wiki: response cache and request deduplicator.
SpecDrops == InitDrops /\ [][NextDrops]_vars
\* extractDropTable over documents whose tables have different parents.
SpecDropDocument == InitDropDocument /\ [][NextDropDocument]_vars

\* The lines an indexed file is made of: an ID and a name, a bare ID, an ID
\* written with a leading zero, a comment naming an ID, an empty line, an
\* ID followed by text, a line ending in a carriage return.
IndexedLines ==
    { <<"1", "\t", "a">>, <<"2">>, <<"0", "1">>, <<"#", "1">>, <<>>,
      <<"1", "2", "x">>, <<"3", "\r">> }
IndexedTexts == UNION {[1..n -> IndexedLines] : n \in 1..MaxLines}

\* objtypes.txt holds any of the texts; nothing is cached yet.
InitIndexedFile ==
    /\ disk \in {[p \in Paths |-> [exists |-> TRUE,
                                    text |-> IF p = ObjTypesPath THEN text ELSE TextA]] :
                    text \in IndexedTexts}
    /\ fileCache = [p \in Paths |-> NoSnapshot]
    /\ idIndexCache = [p \in Paths |-> NoIndex]
    /\ lastF = NoLastF

NextIndex == BuildIdIndex(ObjTypesPath, now)

\* buildIdIndex on its own, over every text of up to MaxLines lines.
InitIndex == InitNet /\ InitIndexedFile /\ InitBox
SpecIndex == InitIndex /\ [][NextIndex]_vars

\* truncateContent on its own, over every content of up to MaxContent
\* characters.
SpecTruncate == InitTruncate /\ [][NextTruncate]_vars

\* extractSections on its own, over contents of up to MaxLines lines.
SpecSections == InitSections /\ [][NextSections]_vars

\* extractDropTable on its own, over pages of up to MaxElements elements.
SpecDropTable == InitDropTable /\ [][NextDropTable]_vars

\* rarityToPercent on its own, over the rarity texts of RarityInputs.
SpecRarity == InitRarity /\ [][NextRarity]_vars

\* The price tools and the drops tools that add prices.
SpecPrices == Init /\ [][NextPrices]_vars

\* The lookups by ID and by name, and the hiscores lookup.
SpecLookup == Init /\ [][NextLookup]_vars

\* The lookups by ID, by name and by ID range over files with repeated IDs.
SpecEntries == InitEntries /\ [][NextEntries]_vars

\* searchFileRegex on its own, over files of up to MaxLines lines.
SpecRegex == InitRegex /\ [][NextRegex]_vars

\* The tools that take a filename.
SpecNames == Init /\ [][NextNames]_vars

\* getWikiCacheKey on its own, over every argument pair.
InitKey == InitKeyCall /\ InitFile /\ InitBox
SpecKey == InitKey /\ [][NextKey]_vars

\* The cache keys of pairs of osrs_wiki_parse_page calls.
InitParseKeys == InitParseKey /\ InitFile /\ InitBox
SpecParseKey == InitParseKeys /\ [][NextParseKey]_vars

\* The two refresh tools next to the caches they refresh.
NextRefresh ==
    \/ BuildIdIndex(SoundIdsPath, now)
    \/ \E dryRun \in BOOLEAN, n \in Counts, text \in Texts : UpdateSoundIds(dryRun, n, text)
    \/ \E c \in Callers : GetOsrsBoxCache(c, FALSE, now)
    \/ \E c \in Callers, dryRun \in BOOLEAN : UpdateOsrsBox(c, dryRun)
    \/ \E c \in Callers, outcome \in BoxOutcomes, n \in Counts, monsters \in Vals :
          /\ BoxResponse(outcome, n, monsters)
          /\ SettleBox(c, outcome, n, monsters)

SpecRefresh == Init /\ [][NextRefresh]_vars

\* The dataset tools with their queries, one call at a time.
NextQuery ==
    \/ TickBox
    \/ \E q \in Queries, t2 \in Later(now) : DatasetTool(1, q, t2)
    \/ \E c \in Callers, outcome \in BoxOutcomes, n \in Counts, monsters \in Vals :
          /\ BoxResponse(outcome, n, monsters)
          /\ SettleBox(c, outcome, n, monsters)

SpecQuery == Init /\ [][NextQuery]_vars

\* Every tool family, one family per run: the families share no state but
\* the clock, so a family acts while the others are as they were at start.
WikiIdle == wikiCache = << >> /\ \A c \in Callers : calls[c].tool # "wiki"
GEIdle == ~gePriceCache.present /\ \A c \in Callers : calls[c].tool \notin PriceTools

NextTools ==
    \/ /\ InitFile /\ InitBox /\ GEIdle
       /\ \/ Tick
          \/ \E c \in Callers, k \in Keys : k[2] = "short" /\ CallWiki(c, k)
          \/ \E c \in Callers, o \in Outcomes, v \in Vals \cup {Null} : Settle(c, o, v)
          \/ Resume
    \/ /\ InitFile /\ InitBox /\ WikiIdle
       /\ \/ Tick
          \/ \E c \in Callers : CallGE(c)
          \/ \E c \in Callers, o \in {"ok", "fail"}, v \in Vals \cup {Null} : SettleGE(c, o, v)
          \/ ResumeGE
    \/ /\ InitNet /\ InitBox
       /\ \/ TickFile
          \/ \E p \in Paths : FileDelete(p)
          \/ \E p \in Paths : GetLines(p)
          \/ \E p \in Paths : BuildIdIndex(p, now)
          \/ \E p \in Paths, id \in Ids : GetEntryById(p, id, now, now)
          \/ \E dryRun \in BOOLEAN, n \in Counts : UpdateSoundIds(dryRun, n, TextA)
    \/ /\ InitNet /\ lastF = NoLastF
       /\ \/ TickBox
          \/ \E q \in Queries : DatasetTool(1, q, now)
          \/ \E c \in Callers : UpdateOsrsBox(c, FALSE)
          \/ \E c \in Callers, outcome \in BoxOutcomes, n \in Counts, monsters \in Vals :
                /\ BoxResponse(outcome, n, monsters)
                /\ SettleBox(c, outcome, n, monsters)

SpecTools == Init /\ [][NextTools]_vars

\* ================================================================ claims
WikiCalls == {c \in Callers : calls[c].tool = "wiki"}
IsResume(l) == l.op \in {"put", "resume"}

\* C1 (state part): at most one produce per key is in flight; every call
\* suspended on a key awaits the promise of the produce in flight for that
\* key; a call that arrived while a produce for its key was in flight did not
\* invoke produce and was handed that produce's promise.
C1_Coalesced ==
    /\ \A c, d \in WikiCalls :
          (c # d /\ InFlight(c) /\ InFlight(d)) => calls[c].key # calls[d].key
    /\ \A c \in WikiCalls :
          calls[c].pc = "await" =>
              /\ calls[c].prom \in WikiCalls
              /\ InFlight(calls[c].prom)
              /\ calls[calls[c].prom].key = calls[c].key
    /\ (last.op = "dedup" /\ last.inflight) =>
          /\ ~last.invoked
          /\ last.prom # last.c
          /\ calls[last.c].prom = last.prom

\* C1 (step part): the callers resumed from one promise receive the same value.
C1_SameValue ==
    (IsResume(last) /\ microtasks # <<>> /\ IsResume(last')) =>
        (last'.prom = last.prom /\ last'.ret = last.ret)

\* C1: a second call with the same key that arrives while the first call's
\* produce is outstanding does not invoke produce again, and both callers
\* receive the same resolved value.
C1_DedupOnce == []C1_Coalesced /\ [][C1_SameValue]_vars

\* C1 witness: a call that was handed the pending promise of another call has
\* been resumed with the value that produce resolved to.
C1_Witness ==
    /\ last.op = "put"
    /\ last.prom # last.c
    /\ last.ret \in Vals

\* C2: the outstanding set holds key K exactly while a produce for K is in
\* flight (so K is removed when the produce completes, whether it succeeded or
\* failed), and a dedupe call for K made while no produce for K is in flight
\* invokes produce.
C2_OutstandingIffInFlight ==
    /\ \A k \in Keys :
          (pendingRequests[k] # 0) <=>
              (\E c \in WikiCalls : InFlight(c) /\ calls[c].key = k)
    /\ \A k \in Keys :
          pendingRequests[k] # 0 =>
              (InFlight(pendingRequests[k]) /\ calls[pendingRequests[k]].key = k)
    /\ (last.op = "dedup" /\ ~last.inflight) => (last.invoked /\ last.prom = last.c)

\* C2 witness: the first call for K after a failed produce for K has invoked
\* produce again.
C2_Witness ==
    /\ last.op = "dedup"
    /\ last.afterFail
    /\ last.invoked
    /\ pendingRequests[last.key] = last.c

\* C3: no two upstream requests for the same resource are in flight together.
C3_OneRequestPerResource ==
    \A c, d \in Callers :
        (c # d /\ InFlight(c) /\ InFlight(d)) => Resource(c) # Resource(d)

\* The entries of cache other than key k, in order.
Others(cache, k) == SelectSeq(cache, LAMBDA e : e.key # k)
AtCapacity(cache) == Len(cache) >= WIKI_CACHE_MAX_SIZE

\* C4: the wiki cache never holds more than the configured maximum of entries.
C4_SizeBounded == Len(wikiCache) <= WIKI_CACHE_MAX_SIZE

\* C4 witness: a put into a full cache has happened and the cache is full.
C4_Witness ==
    /\ last.op = "put"
    /\ last.full
    /\ Len(wikiCache) = WIKI_CACHE_MAX_SIZE
    /\ now = MaxTime

\* C5 as stated: a put of any key into a cache holding exactly the maximum
\* leaves it holding exactly the maximum, without the key that was the
\* earliest inserted.
C5_PutAnyKeyAtMax ==
    [][(last'.op = "put" /\ Len(wikiCache) = WIKI_CACHE_MAX_SIZE) =>
          /\ Len(wikiCache') = WIKI_CACHE_MAX_SIZE
          /\ wikiCache[1].key \notin CacheKeys(wikiCache')]_vars

\* C5 amended: a put of a key the cache does not hold, into a cache holding
\* exactly the maximum, leaves it holding exactly the maximum, without the
\* key that was the earliest inserted and with the new key.
C5_PutNewKeyAtMax ==
    [][(/\ last'.op = "put"
        /\ Len(wikiCache) = WIKI_CACHE_MAX_SIZE
        /\ last'.key \notin CacheKeys(wikiCache)) =>
          /\ Len(wikiCache') = WIKI_CACHE_MAX_SIZE
          /\ wikiCache[1].key \notin CacheKeys(wikiCache')
          /\ last'.key \in CacheKeys(wikiCache')]_vars

\* C5 witness: a key that was not held has been put into a cache that held
\* the maximum.
C5_Witness ==
    /\ last.op = "put"
    /\ last.full
    /\ ~last.held
    /\ Len(wikiCache) = WIKI_CACHE_MAX_SIZE
    /\ wikiCache[Len(wikiCache)].key = last.key

\* C6 (put): a put at or above capacity removes the first entry of the Map
\* and no other; that entry was written no later than any other held entry;
\* the surviving entries keep their order.
C6_PutEvictsOldest ==
    (last'.op = "put" /\ AtCapacity(wikiCache)) =>
        /\ \A i \in 1..Len(wikiCache) : wikiCache[1].timestamp <= wikiCache[i].timestamp
        /\ CacheKeys(wikiCache') = (CacheKeys(wikiCache) \ {wikiCache[1].key}) \cup {last'.key}
        /\ Others(wikiCache', last'.key) = Others(Tail(wikiCache), last'.key)

\* C6 (get): a get that hits changes neither the entries nor their order.
C6_HitKeepsOrder ==
    last'.op = "get" => wikiCache' = wikiCache

\* C6: eviction is in insertion order, and hits do not change it.
C6_Fifo == [][C6_PutEvictsOldest /\ C6_HitKeepsOrder]_vars

\* C6 witness: the oldest entry of a full cache has just been hit and is
\* still the first to be evicted.
C6_Witness ==
    /\ last.op = "get"
    /\ Len(wikiCache) = WIKI_CACHE_MAX_SIZE
    /\ wikiCache[1].key = last.key
    /\ last.ret = wikiCache[1].data

\* C7: get(key) on an entry older than the TTL returns absent and removes
\* that entry and no other; on an entry not older than the TTL it returns the
\* entry's data and leaves the cache as it was.
C7_GetStep ==
    (last'.op \in {"get", "dedup"}) =>
        LET k == last'.key
            i == CacheIndex(wikiCache, k)
        IN  /\ (i # 0 /\ now - wikiCache[i].timestamp > WIKI_CACHE_TTL) =>
                  /\ last'.ret = Null
                  /\ k \notin CacheKeys(wikiCache')
                  /\ wikiCache' = Others(wikiCache, k)
            /\ (i # 0 /\ now - wikiCache[i].timestamp <= WIKI_CACHE_TTL) =>
                  /\ last'.ret = wikiCache[i].data
                  /\ wikiCache' = wikiCache
            /\ i = 0 => (last'.ret = Null /\ wikiCache' = wikiCache)

C7_GetHonoursTtl == [][C7_GetStep]_vars

\* C7 witness: a get has found an entry older than the TTL, answered absent
\* and removed it, while another entry stayed.
C7_Witness ==
    /\ last.op = "dedup"
    /\ last.held
    /\ last.age > WIKI_CACHE_TTL
    /\ last.key \notin CacheKeys(wikiCache)
    /\ wikiCache # <<>>

\* A get has returned an entry whose age is exactly the TTL.
C7_BoundaryHit ==
    /\ last.op = "get"
    /\ last.age = WIKI_CACHE_TTL

\* C8 (hit): while a snapshot younger than the TTL is held, getLines returns
\* it without reading the file and leaves it as it is.
C8_HitStep ==
    LET p == lastF'.path
    IN  (lastF'.op = "getLines" /\ fileCache[p].present
         /\ (now - fileCache[p].timestamp) < CACHE_TTL) =>
            /\ ~lastF'.read
            /\ ~lastF'.threw
            /\ lastF'.lines = fileCache[p].lines
            /\ fileCache' = fileCache

\* The snapshot of p is the file's lines as they are now, stamped now.
Reloaded(p) ==
    /\ lastF'.read
    /\ ~lastF'.threw
    /\ fileCache'[p] = [present |-> TRUE, lines |-> SplitLines(disk[p].text),
                         timestamp |-> now]
    /\ lastF'.lines = fileCache'[p].lines

\* C8 as stated: a call made once the snapshot has reached the TTL reads the
\* file again and replaces lines and timestamp.
C8_AlwaysReloads ==
    [][/\ C8_HitStep
       /\ LET p == lastF'.path
          IN  (lastF'.op = "getLines" /\ Stale(fileCache, p, now)) => Reloaded(p)]_vars

\* C8 amended: a call made once the snapshot has reached the TTL reads the
\* file again and replaces lines and timestamp when the file exists; when it
\* does not, the call throws, returns nothing and keeps the old snapshot.
C8_ReloadsExistingFile ==
    [][/\ C8_HitStep
       /\ LET p == lastF'.path
          IN  (lastF'.op = "getLines" /\ Stale(fileCache, p, now)) =>
                  IF disk[p].exists THEN Reloaded(p)
                  ELSE /\ lastF'.threw
                       /\ ~lastF'.read
                       /\ lastF'.lines = <<>>
                       /\ fileCache' = fileCache]_vars

\* C8 witness: a call found a snapshot that had reached the TTL, read the
\* changed file and now holds its lines, stamped with the time of the call.
C8_Witness ==
    /\ lastF.op = "getLines"
    /\ lastF.stale
    /\ lastF.read
    /\ fileCache[lastF.path].timestamp = now
    /\ fileCache[lastF.path].lines = SplitLines(TextB)
    /\ lastF.lines = SplitLines(TextB)

\* C9 (state part): a cached index belongs to a held snapshot and is the
\* index of exactly that snapshot's lines.
C9_IndexOfSnapshot ==
    \A p \in Paths :
        idIndexCache[p].present =>
            /\ fileCache[p].present
            /\ idIndexCache[p].index = IndexLoop(fileCache[p].lines, 1, EmptyIndex)

\* C9 (step part): a step that replaces or drops the snapshot of a path leaves
\* no index for it, unless the index was rebuilt by that step; buildIdIndex
\* reuses the cached index only on a snapshot younger than the TTL, which it
\* then leaves in place.
C9_Step ==
    /\ \A p \in Paths :
          (fileCache'[p] # fileCache[p] /\ idIndexCache'[p].present) =>
              /\ lastF'.op \in {"buildIdIndex", "getEntryById"}
              /\ lastF'.path = p
              /\ ~lastF'.reused
    /\ (lastF'.op = "buildIdIndex" /\ lastF'.reused) =>
          /\ fileCache[lastF'.path].present
          /\ (now - fileCache[lastF'.path].timestamp) < CACHE_TTL
          /\ fileCache' = fileCache
          /\ idIndexCache' = idIndexCache

\* C9: the ID index is never stale relative to the snapshot it indexes.
C9_IndexNeverStale == []C9_IndexOfSnapshot /\ [][C9_Step]_vars

\* C9 witness: buildIdIndex found an index whose snapshot had reached the
\* TTL, reloaded the changed file and holds the index of the new lines.
C9_Witness ==
    /\ lastF.op = "buildIdIndex"
    /\ lastF.hadIndex
    /\ lastF.stale
    /\ lastF.read
    /\ idIndexCache[lastF.path].present
    /\ fileCache[lastF.path].lines = SplitLines(TextB)
    /\ idIndexCache[lastF.path].index = IndexLoop(SplitLines(TextB), 1, EmptyIndex)

\* ---------------------------------------------------------------- C10
\* C10: getOsrsBoxCache(forceRefresh = false) answers from memory when a
\* memory cache of age < TTL exists, otherwise from the disk snapshot when
\* one of modification age < TTL exists, and only otherwise contacts the
\* remote; it never answers from a memory or disk copy of age >= TTL.
C10_ResolutionOrder ==
    (lastB.op = "getCache" /\ ~lastB.force) =>
        LET memFresh == lastB.memHeld /\ lastB.memAge < OSRSBOX_CACHE_TTL
            diskFresh == lastB.diskHeld /\ lastB.diskAge < OSRSBOX_CACHE_TTL
        IN /\ memFresh => lastB.source = "memory"
           /\ (~memFresh /\ diskFresh) => lastB.source = "disk"
           /\ lastB.source = "remote" => (~memFresh /\ ~diskFresh)
           /\ lastB.source = "memory" => memFresh
           /\ lastB.source = "disk" => diskFresh

\* What the code does instead: the disk snapshot is adopted up to and
\* including age == TTL, the memory cache only below it.
C10_DiskAdoptedAtTtl ==
    (lastB.op = "getCache" /\ ~lastB.force) =>
        LET memFresh == lastB.memHeld /\ lastB.memAge < OSRSBOX_CACHE_TTL
            diskFresh == lastB.diskHeld /\ lastB.diskAge <= OSRSBOX_CACHE_TTL
        IN /\ lastB.source = "memory" <=> memFresh
           /\ lastB.source = "disk" <=> (~memFresh /\ diskFresh)
           /\ lastB.source = "remote" <=> (~memFresh /\ ~diskFresh)

\* A call answered from a disk snapshot that is exactly TTL old.
C10_BoundaryAdopted ==
    /\ lastB.op = "getCache" /\ ~lastB.force
    /\ lastB.source = "disk" /\ lastB.diskAge = OSRSBOX_CACHE_TTL
    /\ lastB.ret # Null

\* ---------------------------------------------------------------- C11
\* C11: a refresh that yields fewer than MIN_ENTRIES records (the dataset
\* download or the sound-ID update) ends in an error and leaves the files on
\* disk, the dataset cache, the file cache and the ID index as they were.
C11_Step ==
    /\ \A dryRun \in BOOLEAN, n \in Counts, text \in Texts :
          (n < MIN_ENTRIES /\ UpdateSoundIds(dryRun, n, text)) =>
              /\ lastF'.threw
              /\ UNCHANGED <<disk, fileCache, idIndexCache, osrsBoxCache, boxFile>>
    /\ \A c \in Callers, outcome \in BoxOutcomes, n \in Counts, monsters \in Vals :
          (n < MIN_ENTRIES /\ SettleBox(c, outcome, n, monsters)) =>
              /\ lastB'.threw
              /\ UNCHANGED <<disk, fileCache, idIndexCache, osrsBoxCache, boxFile>>

C11_ShortRefreshRejected == [][C11_Step]_vars

\* Both refreshes were rejected for a short result while every cache and
\* the snapshot file were filled.
C11_Witness ==
    /\ lastB.op = "fetched" /\ lastB.n = MIN_ENTRIES - 1 /\ lastB.threw
    /\ osrsBoxCache.present /\ boxFile.exists
    /\ lastF.op = "update" /\ lastF.n = MIN_ENTRIES - 1 /\ lastF.threw
    /\ fileCache[SoundIdsPath].present /\ idIndexCache[SoundIdsPath].present

\* ---------------------------------------------------------------- C12
\* C12: when the download, the record-count check or the disk write fails,
\* getOsrsBoxCache returns null, nothing is thrown to the tool, and the tool
\* answers with the not-available error payload.
C12_FailureIsAbsent ==
    (lastB.op = "fetched" /\ lastB.tool = "get") =>
        /\ lastB.answer # "thrown"
        /\ lastB.threw => (lastB.ret = Null /\ lastB.answer = "unavailable")

\* The write of a good download failed while an older memory cache was held.
C12_Witness ==
    /\ lastB.op = "fetched" /\ lastB.tool = "get" /\ lastB.threw
    /\ lastB.outcome = "partwrite" /\ lastB.n = MIN_ENTRIES
    /\ osrsBoxCache.present /\ ~boxFile.valid
    /\ lastB.ret = Null /\ lastB.answer = "unavailable"

\* ---------------------------------------------------------------- C13
\* C13: the monster map, the name index and the item-drop index of the
\* dataset cache are always what one index build over one raw dataset
\* produces; no query changes the content or the order of any of them.
C13_IndexesAreOneBuild ==
    osrsBoxCache.present =>
        \E rawData \in Vals :
            IndexesOf(osrsBoxCache) = IndexesOf(buildOsrsBoxIndexes(rawData, 0))

\* ---------------------------------------------------------------- C14
\* C14: a tool call that fails (upstream error, missing file, entry not
\* found, rejected refresh) leaves every cache entry that is not keyed by
\* its own request as it was: the wiki cache, the file cache, the ID index
\* cache, the price cache and the dataset cache.
OtherFilesSame(p) ==
    \A p2 \in Paths \ {p} :
        fileCache'[p2] = fileCache[p2] /\ idIndexCache'[p2] = idIndexCache[p2]

C14_Step ==
    /\ \A c \in Callers, k \in Keys :
          (last'.c = c /\ last'.key = k /\ CallWiki(c, k)) =>
              /\ MapDelete(wikiCache', k) = MapDelete(wikiCache, k)
              /\ UNCHANGED <<gePriceCache, fileCache, idIndexCache, osrsBoxCache>>
    /\ (last'.op = "resume" /\ Resume) =>
              UNCHANGED <<wikiCache, gePriceCache, fileCache, idIndexCache, osrsBoxCache>>
    /\ (last'.ret = ResFail /\ ResumeGE) =>
              UNCHANGED <<wikiCache, gePriceCache, fileCache, idIndexCache, osrsBoxCache>>
    /\ \A p \in Paths, id \in Ids, t2, t3 \in Later(now) :
          (/\ lastF'.threw \/ (lastF'.op = "getEntryById" /\ ~lastF'.found)
           /\ lastF'.path = p
           /\ GetLines(p) \/ BuildIdIndex(p, t2) \/ GetEntryById(p, id, t2, t3)) =>
              /\ OtherFilesSame(p)
              /\ UNCHANGED <<wikiCache, gePriceCache, osrsBoxCache>>
    /\ \A dryRun \in BOOLEAN, n \in Counts, text \in Texts :
          (lastF'.threw /\ UpdateSoundIds(dryRun, n, text)) =>
              UNCHANGED <<wikiCache, gePriceCache, fileCache, idIndexCache, osrsBoxCache>>
    /\ \A c \in Callers, outcome \in BoxOutcomes, n \in Counts, monsters \in Vals :
          (lastB'.threw /\ SettleBox(c, outcome, n, monsters)) =>
              UNCHANGED <<wikiCache, gePriceCache, fileCache, idIndexCache, osrsBoxCache>>
    /\ \A c \in Callers, q \in Queries, t2 \in Later(now) :
          (lastB'.answer = "notfound" /\ lastB'.q = q /\ DatasetTool(c, q, t2)) =>
              UNCHANGED <<wikiCache, gePriceCache, fileCache, idIndexCache>>

C14_FailureLeavesOthers == [][C14_Step]_vars

\* A read of a removed file failed while the snapshot and the index of
\* another file were held.
C14_Witness ==
    /\ lastF.op \in {"getLines", "buildIdIndex", "getEntryById"} /\ lastF.threw
    /\ \E p2 \in Paths \ {lastF.path} :
          fileCache[p2].present /\ idIndexCache[p2].present

\* ---------------------------------------------------------------- C15
\* C15: once a non-dry-run sound-ID update has written soundids.txt, no
\* snapshot and no ID index of that file is held, and the next lookup or
\* search on the file reads the file as written, whatever the age of the
\* snapshot held before the update.
C15_Invalidated ==
    (lastF.op = "update" /\ lastF.read) =>
        /\ ~fileCache[SoundIdsPath].present
        /\ ~idIndexCache[SoundIdsPath].present

C15_NextLookup ==
    (/\ lastF.op = "update" /\ lastF.read
     /\ lastF'.op \in {"getLines", "buildIdIndex", "getEntryById"}
     /\ lastF'.path = SoundIdsPath) =>
        /\ lastF'.read /\ ~lastF'.reused /\ ~lastF'.threw
        /\ fileCache'[SoundIdsPath].present
        /\ fileCache'[SoundIdsPath].lines = SplitLines(disk[SoundIdsPath].text)
        /\ lastF'.op = "getLines" => lastF'.lines = SplitLines(disk[SoundIdsPath].text)

C15_WriteInvalidates == []C15_Invalidated /\ [][C15_NextLookup]_vars

\* The update wrote while an unexpired snapshot with its index was held.
C15_Witness ==
    /\ lastF.op = "update" /\ lastF.read /\ lastF.hadIndex /\ ~lastF.stale
    /\ disk[SoundIdsPath].text = TextB

\* ---------------------------------------------------------------- C16
\* C16: a dry-run update (of the sound IDs or of the monster dataset)
\* writes no file and leaves the file cache, the ID index cache and the
\* dataset cache as they were, whatever was fetched.
C16_Step ==
    /\ \A n \in Counts, text \in Texts :
          UpdateSoundIds(TRUE, n, text) =>
              UNCHANGED <<disk, fileCache, idIndexCache, osrsBoxCache, boxFile>>
    /\ \A c \in Callers, outcome \in BoxOutcomes, n \in Counts, monsters \in Vals :
          (boxCalls[c].tool = "update" /\ ~boxCalls[c].save
           /\ SettleBox(c, outcome, n, monsters)) =>
              UNCHANGED <<disk, fileCache, idIndexCache, osrsBoxCache, boxFile>>

C16_DryRunWritesNothing == [][C16_Step]_vars

\* Both dry runs fetched a full result while every cache was filled.
C16_Witness ==
    /\ lastB.op = "fetched" /\ lastB.tool = "update" /\ lastB.dryRun
    /\ ~lastB.threw /\ lastB.n = MIN_ENTRIES /\ lastB.answer = "result"
    /\ osrsBoxCache.present /\ boxFile.exists
    /\ lastF.op = "update" /\ lastF.dryRun /\ ~lastF.threw /\ lastF.n = MIN_ENTRIES
    /\ fileCache[SoundIdsPath].present /\ idIndexCache[SoundIdsPath].present

\* ---------------------------------------------------------------- C17
\* The properties of params listed in the order f.
Reordered(params, f) == [i \in 1..Len(params) |-> params[f[i]]]

\* C17: the cache key does not depend on the order in which the object lists
\* its parameters: the same names and values in any order give the same key.
C17_KeyOrderIndependent ==
    last.op = "key" =>
        \A f \in Permutations(1..Len(last.params)) :
            getWikiCacheKey(last.action, Reordered(last.params, f)) = last.cacheKey

\* An object listing its names out of order gave the sorted key
\* wiki_search:action=q&srlimit=10&sroffset=0.
C17_Witness ==
    /\ last.op = "key" /\ last.action = WikiSearch
    /\ last.params = << [name |-> NameSroffset, value |-> NumberValue(0)],
                        [name |-> NameAction, value |-> StringValue(<<"q">>)],
                        [name |-> NameSrlimit, value |-> NumberValue(10)] >>
    /\ last.cacheKey = WikiSearch \o <<":">> \o NameAction \o <<"=", "q", "&">>
                         \o NameSrlimit \o <<"=", "1", "0", "&">>
                         \o NameSroffset \o <<"=", "0">>

\* ---------------------------------------------------------------- C18
\* The 0-based offsets of the lines that start with a digit.
IdLines(lines) == {i \in 0..(Len(lines) - 1) : LeadingDigits(lines[i + 1]) # <<>>}
\* The ID line i starts with.
IdOfLine(lines, i) == ParseInt(LeadingDigits(lines[i + 1]))

\* C18: the index built for a file holds exactly the IDs that some line
\* starts with, each mapped to the 0-based offset of a line that starts with
\* it (the last one); lines that start with no digit are skipped, no error
\* is raised, and a file without ID lines gives the empty index.
C18_IndexMatchesLines ==
    (lastF.op = "buildIdIndex" /\ lastF.path = ObjTypesPath) =>
        LET lines == SplitLines(disk[ObjTypesPath].text)
            index == idIndexCache[ObjTypesPath].index
        IN  /\ ~lastF.threw
            /\ idIndexCache[ObjTypesPath].present
            /\ DOMAIN index = {IdOfLine(lines, i) : i \in IdLines(lines)}
            /\ \A id \in DOMAIN index :
                  /\ index[id] \in IdLines(lines)
                  /\ IdOfLine(lines, index[id]) = id
                  /\ \A i \in IdLines(lines) : IdOfLine(lines, i) = id => i <= index[id]
            /\ IdLines(lines) = {} => index = EmptyIndex

\* A three-line file whose middle line starts with no digit was indexed:
\* ID 2 at offset 0, ID 12 at offset 2.
C18_Witness ==
    /\ lastF.op = "buildIdIndex" /\ lastF.read
    /\ disk[ObjTypesPath].text = << <<"2">>, <<"#", "1">>, <<"1", "2", "x">> >>
    /\ idIndexCache[ObjTypesPath].index = (2 :> 0) @@ (12 :> 2)

\* ---------------------------------------------------------------- C19
\* The drops of the item in the dataset, as <<monster, drop>> positions, that
\* pass the rarity filter of the request.
PassingDrops(rawData, q) ==
    LET monsters == ObjectValues(rawData)
    IN  {pos \in (1..Len(monsters)) \X (1..3) :
            /\ pos[2] <= Len(monsters[pos[1]].drops)
            /\ monsters[pos[1]].drops[pos[2]].id = q.id
            /\ q.hasMin => monsters[pos[1]].drops[pos[2]].rarity >= q.min_rarity}

\* The source entry of the drop at a position.
SourceAt(rawData, pos) ==
    LET monster == ObjectValues(rawData)[pos[1]]
    IN  [monsterId |-> monster.id, monsterName |-> monster.name,
         rarity |-> monster.drops[pos[2]].rarity]

MinOf(a, b) == IF a < b THEN a ELSE b

\* C19: the sources answered for a known item id all pass min_rarity when it
\* is given, are in descending order of rarity, are at most limit, and are
\* the limit sources of best odds among those that pass: for every rarity x,
\* the answer holds as many sources of rarity >= x as the limit allows.
C19_SourcesFilteredSortedLimited ==
    (lastB.q.tool = "sources" /\ lastB.q.id # 0 /\ lastB.answer = "data") =>
        LET q == lastB.q
            r == lastB.result
            passing == PassingDrops(osrsBoxCache.data, q)
        IN  /\ osrsBoxCache.present
            /\ Len(r) = MinOf(q.limit, Cardinality(passing))
            /\ \A i \in 1..Len(r) :
                  /\ q.hasMin => r[i].rarity >= q.min_rarity
                  /\ Cardinality({j \in 1..Len(r) : r[j] = r[i]})
                       <= Cardinality({pos \in passing :
                                          SourceAt(osrsBoxCache.data, pos) = r[i]})
            /\ \A i, j \in 1..Len(r) : i < j => r[i].rarity >= r[j].rarity
            /\ \A x \in Rarities :
                  Cardinality({i \in 1..Len(r) : r[i].rarity >= x})
                    = MinOf(q.limit,
                            Cardinality({pos \in passing :
                                SourceAt(osrsBoxCache.data, pos).rarity >= x}))

\* Of the four drops of item 1, three pass min_rarity 2 and the limit is 2:
\* the answer is the two sources of rarity 3, the second of which the index
\* lists after the source of rarity 2.
C19_Witness ==
    /\ lastB.q.tool = "sources" /\ lastB.answer = "data"
    /\ lastB.q.id = 1 /\ lastB.q.hasMin /\ lastB.q.min_rarity = 2 /\ lastB.q.limit = 2
    /\ osrsBoxCache.data = 1
    /\ Len(lastB.result) = 2
    /\ lastB.result[1].monsterId = 2 /\ lastB.result[1].rarity = 3
    /\ lastB.result[2].monsterId = 3 /\ lastB.result[2].rarity = 3

\* ---------------------------------------------------------------- C20
\* C20: a call of search_data_file, get_file_details, search_regex or
\* get_id_range whose filename contains '..', '/' or '\' throws before any
\* file is touched and before any cache is read or changed; the paths these
\* tools hand to the file system all lie in the data directory.
C20_Rejected ==
    lastF.op = "fileTool" =>
        /\ IsInvalidFilename(lastF.filename) =>
              /\ lastF.threw /\ lastF.answer = "threw"
              /\ lastF.accessed = {} /\ ~lastF.cacheRead /\ ~lastF.read
        /\ \A path \in lastF.accessed : InDataDir(path)

\* (every step that leaves a record of a filename tool is that tool's call)
C20_Step ==
    (lastF'.op = "fileTool" /\ IsInvalidFilename(lastF'.filename)) =>
        UNCHANGED <<now, disk, fileCache, idIndexCache>>

C20_TraversalRejected == []C20_Rejected /\ [][C20_Step]_vars

\* get_id_range was asked for ../data/objtypes.txt while objtypes.txt was
\* cached and indexed, and threw.
C20_Witness ==
    /\ lastF.op = "fileTool" /\ lastF.tool = "get_id_range" /\ lastF.threw
    /\ lastF.filename = <<".", ".", "/">> \o DataName \o <<"/">> \o ObjTypesName
    /\ fileCache[ObjTypesPath].present /\ idIndexCache[ObjTypesPath].present

C22_PartialDegradation ==
    (last.op = "ge_resume" /\ last.ret = ResFail) =>
        /\ last.tool = "drops" => last.answer = "base"
        /\ last.tool = "ge" => last.answer = "threw"

\* The price fetch of a drops lookup failed while prices fetched earlier
\* were still held (and had expired): the lookup answered its base result.
C22_Witness ==
    /\ last.op = "ge_resume" /\ last.ret = ResFail
    /\ last.tool = "drops" /\ last.answer = "base"
    /\ gePriceCache.present

\* ---------------------------------------------------------------- C23
\* The headings of a content: the indexes of the '\n' before a line made of
\* two or three '#', spaces and a text; and the text of the heading there.
ContentHeadings(content) ==
    {i \in 0..(Len(content) - 1) :
        /\ CharAt(content, i) = "\n"
        /\ HashRun(content, i + 1) \in {2, 3}
        /\ i + 1 + HashRun(content, i + 1) < Len(content)
        /\ CharAt(content, i + 1 + HashRun(content, i + 1)) = " "
        /\ Trim(Substring(content, i + 1 + HashRun(content, i + 1),
                          LineEnd(content, i + 1 + HashRun(content, i + 1)) + 1)) # <<>>}
HeadingText(content, i) ==
    Trim(Substring(content, i + 1 + HashRun(content, i + 1),
                   LineEnd(content, i + 1 + HashRun(content, i + 1)) + 1))

\* C23: a content no longer than maxLength comes back unchanged with
\* truncated = false; a longer content with a heading at or before the cut
\* (maxLength less the suffix) comes back with truncated = true and
\* truncatedAtSection the text of the latest such heading.
C23_TruncateAtHeading ==
    last.op = "truncate" =>
        LET content == last.input.content
            maxLength == last.input.maxLength
            targetLength == maxLength - Len(TruncationMsg)
            before == {i \in ContentHeadings(content) : i <= targetLength}
        IN  /\ Len(content) <= maxLength =>
                  (last.output.content = content /\ ~last.output.truncated)
            /\ (Len(content) > maxLength /\ targetLength > 0 /\ before # {}) =>
                  /\ last.output.truncated
                  /\ last.output.hasSection
                  /\ \E i \in before :
                        /\ \A j \in before : j <= i
                        /\ last.output.truncatedAtSection = HeadingText(content, i)

\* ---------------------------------------------------------------- C24
\* C24: for every content and every max_content_length the schema admits,
\* the content truncateContent hands to osrs_wiki_parse_page is at most
\* max_content_length characters long, suffix included, whichever cut point
\* was chosen.
C24_NeverExceedsMaxLength ==
    (last.op = "truncate" /\ last.input.maxLength >= MinContentLength) =>
        Len(last.output.content) <= last.input.maxLength

\* A content cut at a heading that, with the suffix, is exactly as long as
\* the length asked for.
C24_Witness ==
    /\ last.op = "truncate"
    /\ last.input.maxLength >= MinContentLength
    /\ last.output.truncated
    /\ last.output.hasSection
    /\ Len(last.output.content) = last.input.maxLength

\* ---------------------------------------------------------------- C25
\* The level of a content line (0 for a line of text) and its title.
LineLevel(line) == IF HashRun(line, 0) \in {2, 3} THEN HashRun(line, 0) ELSE 0
LineTitle(line) == Trim(Substring(line, HashRun(line, 0), Len(line)))
\* The last line of the segment of the heading at line k: the line before
\* the next heading of equal or higher level, or the last line.
SegmentEnd(lines, k) ==
    LET later == {j \in (k + 1)..Len(lines) :
                     LineLevel(lines[j]) # 0 /\ LineLevel(lines[j]) <= LineLevel(lines[k])}
    IN  IF later = {} THEN Len(lines)
        ELSE (CHOOSE j \in later : \A j2 \in later : j <= j2) - 1

\* text has this line among its lines.
HasLine(text, line) ==
    Includes(<<"\n">> \o text \o <<"\n">>, <<"\n">> \o line \o <<"\n">>)

\* C25: extractSections(content, [T]) includes, for every heading whose
\* title matches T, every line from the heading up to the next heading of
\* equal or higher level, subsections nested under it included.
C25_SegmentsIncludeSubsections ==
    (last.op = "sections" /\ Len(last.input.sectionTitles) = 1) =>
        LET lines == last.input.lines
            titles == <<Trim(ToLowerCase(last.input.sectionTitles[1]))>>
        IN  \A k \in 1..Len(lines) :
                (LineLevel(lines[k]) # 0 /\ TitleMatches(LineTitle(lines[k]), titles)) =>
                    \A j \in k..SegmentEnd(lines, k) : HasLine(last.output, lines[j])

\* ---------------------------------------------------------------- C26
\* The first heading met walking backward from index j, as long as no
\* drop table is met before it; undecided when a wikitable that has a
\* rarity header without being a drop table is met first.
RECURSIVE NearestHeading(_, _)
NearestHeading(page, j) ==
    IF j = 0 THEN [decided |-> TRUE, found |-> FALSE, text |-> ""]
    ELSE IF page[j].kind = "h" THEN [decided |-> TRUE, found |-> TRUE, text |-> page[j].text]
    ELSE IF IsDropTable(page[j]) THEN [decided |-> TRUE, found |-> FALSE, text |-> ""]
    ELSE IF page[j].kind = "table" /\ page[j].rarity
    THEN [decided |-> FALSE, found |-> FALSE, text |-> ""]
    ELSE NearestHeading(page, j - 1)

\* C26: the category of a drop table is the text of the first heading met
\* walking backward through the siblings before it, whatever the level of
\* the headings further back.
C26_NearestHeadingWins ==
    last.op = "drop_table" =>
        \A k \in 1..Len(last.input) :
            (/\ IsDropTable(last.input[k])
             /\ NearestHeading(last.input, k - 1).decided
             /\ NearestHeading(last.input, k - 1).found) =>
                last.output.categories[k] = NearestHeading(last.input, k - 1).text

\* ---------------------------------------------------------------- C27
\* The drops of the tables of a page, from index k on, that were given this
\* category, in the order of the tables.
RECURSIVE DropsOfCategory(_, _, _, _)
DropsOfCategory(page, categories, category, k) ==
    IF k > Len(page) THEN <<>>
    ELSE (IF IsDropTable(page[k]) /\ categories[k] = category
          THEN tableDrops(page[k].rows) ELSE <<>>)
             \o DropsOfCategory(page, categories, category, k + 1)

\* C27: the sections of the output have pairwise different categories, and
\* the drops of each are the accepted rows of every table given its
\* category, one table after the other in the order of the page.
C27_MergedByAppending ==
    last.op = "drop_table" =>
        LET sections == last.output.sections
        IN  /\ \A i, j \in 1..Len(sections) :
                  sections[i].category = sections[j].category => i = j
            /\ \A i \in 1..Len(sections) :
                  sections[i].drops = DropsOfCategory(last.input, last.output.categories,
                                                      sections[i].category, 1)
            /\ \A k \in 1..Len(last.input) :
                  (IsDropTable(last.input[k]) /\ tableDrops(last.input[k].rows) # <<>>) =>
                      \E i \in 1..Len(sections) :
                          sections[i].category = last.output.categories[k]

\* Two tables with accepted rows were given one category, and its section
\* holds the rows of both.
C27_Witness ==
    /\ last.op = "drop_table"
    /\ \E k1, k2 \in 1..Len(last.input) :
          /\ k1 < k2
          /\ IsDropTable(last.input[k1]) /\ IsDropTable(last.input[k2])
          /\ last.input[k1] # last.input[k2]
          /\ last.output.categories[k1] = last.output.categories[k2]
          /\ \E i \in 1..Len(last.output.sections) :
                last.output.sections[i].drops =
                    tableDrops(last.input[k1].rows) \o tableDrops(last.input[k2].rows)
                /\ Len(last.output.sections[i].drops) = 2

\* ---------------------------------------------------------------- C28
\* The items of the dataset that have a source and whose name includes the
\* fragment, whatever the case of either.
Candidates(rawData, fragment) ==
    LET monsters == ObjectValues(rawData)
    IN  {id \in ItemIds :
            /\ \E mi \in 1..Len(monsters) : \E j \in 1..Len(monsters[mi].drops) :
                  monsters[mi].drops[j].id = id
            /\ Includes(ToLowerCase(ItemName(id)), ToLowerCase(fragment))}

\* The lookup by name has answered.
ByNameAnswered ==
    /\ lastB.q.tool = "sources" /\ lastB.q.id = 0
    /\ lastB.answer \in {"data", "multiple", "notfound"}
    /\ osrsBoxCache.present

\* The sources answered are sources of this item, and as many as the limit
\* lets through.
SourcesOfItem(id) ==
    LET passing == PassingDrops(osrsBoxCache.data, [lastB.q EXCEPT !.id = id])
    IN  /\ Len(lastB.result) = MinOf(lastB.q.limit, Cardinality(passing))
        /\ \A i \in 1..Len(lastB.result) :
              \E pos \in passing : SourceAt(osrsBoxCache.data, pos) = lastB.result[i]

\* C28 as stated: with more than one item matching the fragment the answer
\* carries no sources and names every matching item.
C28_AllCandidatesListed ==
    ByNameAnswered =>
        LET cands == Candidates(osrsBoxCache.data, lastB.q.name)
        IN  Cardinality(cands) > 1 =>
              /\ lastB.answer = "multiple"
              /\ {lastB.result[i].id : i \in 1..Len(lastB.result)} = cands

\* C28, amended: with more than one item matching the fragment the answer
\* carries no sources and names matching items, each once with its name:
\* all of them when they are at most MATCH_LIMIT, otherwise the first
\* MATCH_LIMIT in index order; sources are answered only when exactly one
\* item matches, and they are the sources of that item; with no match the
\* answer is an error.
C28_NeverGuesses ==
    ByNameAnswered =>
        LET cands == Candidates(osrsBoxCache.data, lastB.q.name)
            r == lastB.result
        IN  /\ cands = {} <=> lastB.answer = "notfound"
            /\ Cardinality(cands) > 1 <=> lastB.answer = "multiple"
            /\ Cardinality(cands) = 1 <=> lastB.answer = "data"
            /\ lastB.answer = "multiple" =>
                  /\ Len(r) = MinOf(MATCH_LIMIT, Cardinality(cands))
                  /\ \A i \in 1..Len(r) : r[i].id \in cands /\ r[i].name = ItemName(r[i].id)
                  /\ \A i, j \in 1..Len(r) : r[i].id = r[j].id => i = j
                  /\ \A i \in 1..Len(r) :
                        \A id \in cands \ {r[j].id : j \in 1..Len(r)} :
                            \E k \in 1..Len(osrsBoxCache.itemDropIndex) :
                                \E k2 \in 1..Len(osrsBoxCache.itemDropIndex) :
                                    /\ osrsBoxCache.itemDropIndex[k].key = r[i].id
                                    /\ osrsBoxCache.itemDropIndex[k2].key = id
                                    /\ k < k2
            /\ lastB.answer = "data" => \A id \in cands : SourcesOfItem(id)

\* The fragment "A" matched the three items of the first dataset: no
\* sources were answered, and the first MATCH_LIMIT items were named.
C28_Witness ==
    /\ ByNameAnswered
    /\ osrsBoxCache.data = 1
    /\ lastB.q.name = <<"A">>
    /\ Candidates(osrsBoxCache.data, lastB.q.name) = {1, 2, 3}
    /\ lastB.answer = "multiple"
    /\ lastB.result = << [id |-> 1, name |-> ItemName(1)],
                         [id |-> 2, name |-> ItemName(2)] >>

\* ---------------------------------------------------------------- C29
\* The number of decimals of a percentage text, and the number its digits
\* spell without the point.
DecimalsOf(text) ==
    LET point == CHOOSE i \in 1..Len(text) : text[i] = "."
    IN  Len(text) - 1 - point
DigitsValue(text) == ParseInt(SelectSeq(text, LAMBDA ch : ch \in Digits))

C30_EntryMatchesId ==
    (lastF.op = "getEntryById" /\ lastF.found) =>
        /\ LeadingDigits(lastF.raw) # <<>>
        /\ ParseInt(LeadingDigits(lastF.raw)) = lastF.id

\* ---------------------------------------------------------------- C31
\* The drop sections of the pages the wiki serves, and the value
\* osrs_wiki_get_drops computes for a page on a cache miss: the sections
\* when include_categories is true, their drops in one flat list when false.
DropSectionsServed == {extractDropTable(html).sections : html \in DropHtmls}
ComputedOnMiss(include_categories) ==
    IF include_categories THEN DropSectionsServed
    ELSE {FlatMapDrops(dropTable) : dropTable \in DropSectionsServed}

\* C31: every page answered by osrs_wiki_get_drops without an error has the
\* shape the arguments of that call ask for, the value the call would have
\* computed on a cache miss: categorized sections when include_categories
\* is true, the flat drop list when it is false, whatever an earlier call
\* left in the cache for the page.
C31_ShapeFromCurrentCall ==
    last.op = "drops_return" =>
        \A i \in 1..Len(last.input.pages) :
            LET entry == last.output.results[last.input.pages[i]]
            IN  entry.error = "" =>
                    entry.data \in ComputedOnMiss(last.input.include_categories)

\* ---------------------------------------------------------------- C36
\* C36: a call of osrs_wiki_get_drops over several pages answers every page
\* it was asked: a page whose fetch failed or whose response held no text
\* has an {error} entry, every other page has its data, and a step that
\* ends a page with an error leaves no cache entry under that page's key.
C36_FailuresIsolatedPerPage ==
    /\ (last.op = "drops_return" /\ Len(last.input.pages) > 1) =>
          /\ DOMAIN last.output.results = {last.input.pages[i] : i \in 1..Len(last.input.pages)}
          /\ Len(last.output.served) = Len(last.input.pages)
          /\ \A i \in 1..Len(last.input.pages) :
                (last.output.results[last.input.pages[i]].error # "")
                    = (last.output.served[i] \in {"fail", "nohtml"})
    /\ (last.op \in {"drops_resume", "drops_return"} /\ last.ret \in {ResFail, ResNoHtml}) =>
          CacheIndex(wikiCache, last.cacheKey) = 0

\* The first of two pages failed, the second was fetched: the answer holds
\* the error of the first and the data of the second, and only the second
\* is in the cache.
C36_Witness ==
    /\ last.op = "drops_return"
    /\ last.input.pages = <<<<"a">>, <<"b">>>>
    /\ last.output.served = <<"fail", "ok">>
    /\ last.output.results[<<"a">>].error = "Network Error"
    /\ last.output.results[<<"b">>].error = ""
    /\ last.output.results[<<"b">>].data # <<>>
    /\ CacheIndex(wikiCache, DropsKey(<<"a">>)) = 0
    /\ CacheIndex(wikiCache, DropsKey(<<"b">>)) # 0

\* ---------------------------------------------------------------- C37
\* A heading h2..h4 is among the elements before index k of a sibling list.
HeadingBefore(siblings, k) == \E j \in 1..(k - 1) : siblings[j].kind = "h"

\* C37: a qualifying table with no heading among the siblings that precede
\* it is given the default category "Drops", whatever category the tables
\* processed earlier in the document were given.
C37_DefaultWithoutHeading ==
    last.op = "drop_document" =>
        \A g \in 1..Len(last.input) : \A k \in 1..Len(last.input[g]) :
            (IsDropTable(last.input[g][k]) /\ ~HeadingBefore(last.input[g], k))
                => last.output.categories[g][k] = "Drops"

\* ---------------------------------------------------------------- C38
\* The 1-based number of the last line whose leading digits are the ID,
\* and of the first line whose name is the one searched (0 when none).
LastWithId(lines, id) ==
    LET S == {i \in 1..Len(lines) :
                 LeadingDigits(lines[i]) # <<>> /\ ParseInt(LeadingDigits(lines[i])) = id}
    IN  IF S = {} THEN 0 ELSE CHOOSE i \in S : \A j \in S : j <= i
FirstWithName(lines, name) ==
    LET S == {i \in 1..Len(lines) :
                 LET parts == SplitTab(lines[i], 1, <<>>)
                 IN  Len(parts) >= 2 /\ ToLowerCase(parts[2]) = SearchName(name)}
    IN  IF S = {} THEN 0 ELSE CHOOSE i \in S : \A j \in S : i <= j

\* C38: when several lines start with the same ID, a lookup by ID answers
\* the last of them and get_id_range lists the ID with the number and name
\* of the last of them, while a lookup by name answers the first line that
\* carries the name.
C38_LastOccurrenceWins ==
    LET lines == SplitLines(disk[ObjTypesPath].text)
    IN  /\ (lastF.op = "lookup" /\ lastF.tool = "by_id") =>
              LET n == LastWithId(lines, lastF.id)
              IN  /\ ~lastF.threw
                  /\ lastF.found = (n # 0)
                  /\ n # 0 => lastF.raw = lines[n]
        /\ lastF.op = "id_range" =>
              /\ ~lastF.threw
              /\ \A k \in 1..Len(lastF.lines) :
                    LET e == lastF.lines[k]
                        n == LastWithId(lines, e.id)
                    IN  /\ e.lineNumber = n
                        /\ n # 0
                        /\ e.name = SplitTab(lines[n], 1, <<>>)[2]
        /\ (lastF.op = "lookup" /\ lastF.tool = "by_name") =>
              LET n == FirstWithName(lines, lastF.name)
              IN  /\ lastF.found = (n # 0)
                  /\ n # 0 => lastF.raw = lines[n]

\* ID 1 was looked up in a file whose first two lines both start with 1:
\* the second was answered.
C38_Witness ==
    /\ lastF.op = "lookup" /\ lastF.tool = "by_id" /\ lastF.id = 1
    /\ disk[ObjTypesPath].text = << <<"1", "\t", "a">>, <<"1", "\t", "b">> >>
    /\ lastF.found
    /\ lastF.raw = <<"1", "\t", "b">>

\* ---------------------------------------------------------------- C34
\* C34: two calls of osrs_wiki_parse_page whose validated arguments differ
\* (in the page, in max_content_length or in the list of sections) never
\* have the same cache key.
C34_KeysCollisionFree ==
    last.op = "parse_keys" =>
        (last.input[1] # last.input[2] => last.output[1] # last.output[2])

\* ---------------------------------------------------------------- C35
\* The pattern matches the line, tested on its own.
LineMatches(line, pattern, flags) ==
    \E i \in 0..Len(line) : MatchAt(line, pattern, i, "i" \in flags)

\* C35: for every pattern and every flags string, g and y included, the
\* matches of search_regex are exactly the lines of the file the pattern
\* matches, each tested independently of the lines before it, in file
\* order, and totalResults is their count.
C35_MatchesEveryMatchingLine ==
    last.op = "search_regex" =>
        LET lines == last.input.lines
            hits == {i \in 1..Len(lines) :
                        LineMatches(lines[i], last.input.pattern, last.input.flags)}
        IN  /\ {last.output.matched[k].lineNumber : k \in 1..Len(last.output.matched)} = hits
            /\ last.output.totalResults = Cardinality(hits)

\* ---------------------------------------------------------------- C32
\* C32: every dataset getOsrsBoxCache returns, to a tool or to a caller of
\* its own, was downloaded less than OSRSBOX_CACHE_TTL (24 hours) before,
\* also when the memory cache was adopted from the disk snapshot.
C32_FreshnessBound ==
    (lastB.op \in {"getCache", "tool", "fetched"} /\ lastB.ret # Null) =>
        lastB.dataAge < OSRSBOX_CACHE_TTL

\* ---------------------------------------------------------------- C33
\* C33: a dataset held as the in-memory cache has at least MIN_ENTRIES
\* (1000) records, whether it was adopted from a download or from the disk
\* snapshot, the snapshot being written by fetchOsrsBoxData only.
C33_AdoptedHasMinimum ==
    osrsBoxCache.present => osrsBoxCache.n >= MIN_ENTRIES

\* With no dataset in memory (at start or after a restart) the cache was
\* adopted from the disk snapshot, with the records the snapshot holds.
C33_Witness ==
    /\ lastB.op = "getCache" /\ lastB.source = "disk"
    /\ ~lastB.memHeld
    /\ osrsBoxCache.present
    /\ osrsBoxCache.n = boxFile.n
    /\ osrsBoxCache.n >= MIN_ENTRIES

====
